---- MODULE Spec2Model ----
EXTENDS Integers, Sequences, FiniteSets, TLC

\* A string is a sequence of one-character strings; "A" is upper-case a,
\* "a_acute" is a with an acute accent, "U+3000" is the full-width space.

\* ---------------------------------------------------------------- bounds
MaxQueryLen == 3

\* ---------------------------------------------------------------- strings
Whitespace == {" ", "U+3000"}

toLowerCase(c) ==
    CASE c = "A" -> "a"
      [] c = "B" -> "b"
      [] OTHER -> c

stripDiacritics(c) ==
    IF c = "a_acute" THEN "a" ELSE c

normalize(text, foldDiacritics) ==
    [i \in 1..Len(text) |->
        IF foldDiacritics THEN stripDiacritics(toLowerCase(text[i]))
                          ELSE toLowerCase(text[i])]

startsWith(text, prefix) ==
    /\ Len(prefix) <= Len(text)
    /\ SubSeq(text, 1, Len(prefix)) = prefix

includes(text, query) ==
    \E i \in 0..(Len(text) - Len(query)) :
        SubSeq(text, i + 1, i + Len(query)) = query

smartIncludes(text, query, foldDiacritics) ==
    includes(normalize(text, foldDiacritics), normalize(query, foldDiacritics))

trim(text) ==
    LET keep == {i \in 1..Len(text) : text[i] \notin Whitespace}
    IN  IF keep = {} THEN <<>>
        ELSE LET lo == CHOOSE i \in keep : \A j \in keep : i <= j
                 hi == CHOOSE i \in keep : \A j \in keep : j <= i
             IN  SubSeq(text, lo, hi)

RECURSIVE splitBy(_, _, _)
\* the fragments of text between separator characters, empty ones included
splitBy(text, seps, cur) ==
    IF text = <<>> THEN <<cur>>
    ELSE IF Head(text) \in seps
         THEN <<cur>> \o splitBy(Tail(text), seps, <<>>)
         ELSE splitBy(Tail(text), seps, Append(cur, Head(text)))

smartWhitespaceSplit(text) ==
    SelectSeq(splitBy(text, Whitespace, <<>>), LAMBDA x : x /= <<>>)

\* ---------------------------------------------------------------- matcher
\* score of a literal substring hit
ExactScore == 1000

NotFound == [type |-> "not found", score |-> 0, meta |-> <<>>, alias |-> FALSE]

\* Facets with the tag matcher tried before the name matcher
Facets_tagFirst == <<"tag", "name", "alias", "header", "link">>

Facets == <<"name", "alias", "tag", "header", "link">>

RECURSIVE alignFrom(_, _, _)
\* positions of the leftmost alignment of token in value at or after pos,
\* <<>> when token is no subsequence of value there
alignFrom(value, token, pos) ==
    IF token = <<>> THEN <<>>
    ELSE LET hits == {i \in pos..Len(value) : value[i] = Head(token)}
         IN  IF hits = {} THEN <<0>>
             ELSE LET p == CHOOSE i \in hits : \A j \in hits : i <= j
                  IN  <<p>> \o alignFrom(value, Tail(token), p + 1)

\* -1 when token is no subsequence of value; otherwise the best score over
\* the alignments: two points per matched character, minus the gaps between
\* the matched characters, minus one when the match does not start the value
fuzzyScore(value, token, foldDiacritics) ==
    LET v == normalize(value, foldDiacritics)
        t == normalize(token, foldDiacritics)
        scoreAt(s) ==
            LET a == alignFrom(v, t, s)
            IN  IF a = <<>> \/ \E i \in 1..Len(a) : a[i] = 0 THEN -1
                ELSE 2 * Len(t) - ((a[Len(a)] - a[1] + 1) - Len(t))
                     - (IF a[1] = 1 THEN 0 ELSE 1)
        scores == {scoreAt(s) : s \in 1..Len(v)} \cup {-1}
    IN  CHOOSE x \in scores : \A y \in scores : y <= x

facetEnabled(facet, options) ==
    CASE facet = "tag" -> options.searchByTags
      [] facet = "header" -> options.searchByHeaders
      [] facet = "link" -> options.searchByLinks
      [] OTHER -> TRUE

facetValues(item, facet) ==
    CASE facet = "name" -> item.tokens
      [] facet = "alias" -> item.aliases
      [] facet = "tag" -> item.tags
      [] facet = "header" -> item.headers
      [] facet = "link" -> item.links

\* matchFacet recording no meta for a fuzzy match
matchFacet_fuzzyWithoutMeta(item, facet, query, options) ==
    LET fold == options.isNormalizeAccentsDiacritics
        values == facetValues(item, facet)
        exact == SelectSeq(values, LAMBDA v : smartIncludes(v, query, fold))
        scores == [i \in 1..Len(values) |-> fuzzyScore(values[i], query, fold)]
        accepted == {i \in 1..Len(values) :
                        scores[i] >= 0 /\ scores[i] >= options.minFuzzyScore}
        best == CHOOSE x \in {scores[i] : i \in accepted} :
                    \A i \in accepted : scores[i] <= x
    IN  IF ~facetEnabled(facet, options) THEN NotFound
        ELSE IF exact /= <<>>
             THEN [type |-> facet, score |-> ExactScore, meta |-> exact,
                   alias |-> facet = "alias"]
        ELSE IF options.fuzzyTarget /\ accepted /= {}
             THEN [type |-> facet, score |-> best, meta |-> <<>>,
                   alias |-> facet = "alias"]
        ELSE NotFound

\* one facet matcher: exact substring hits first, fuzzy hits otherwise
matchFacet(item, facet, query, options) ==
    LET fold == options.isNormalizeAccentsDiacritics
        values == facetValues(item, facet)
        exact == SelectSeq(values, LAMBDA v : smartIncludes(v, query, fold))
        scores == [i \in 1..Len(values) |-> fuzzyScore(values[i], query, fold)]
        accepted == {i \in 1..Len(values) :
                        scores[i] >= 0 /\ scores[i] >= options.minFuzzyScore}
        fuzzy == SelectSeq([i \in 1..Len(values) |-> i], LAMBDA i : i \in accepted)
        best == CHOOSE x \in {scores[i] : i \in accepted} :
                    \A i \in accepted : scores[i] <= x
    IN  IF ~facetEnabled(facet, options) THEN NotFound
        ELSE IF exact /= <<>>
             THEN [type |-> facet, score |-> ExactScore, meta |-> exact,
                   alias |-> facet = "alias"]
        ELSE IF options.fuzzyTarget /\ accepted /= {}
             THEN [type |-> facet, score |-> best,
                   meta |-> [k \in 1..Len(fuzzy) |-> values[fuzzy[k]]],
                   alias |-> facet = "alias"]
        ELSE NotFound

RECURSIVE matchQueryFrom(_, _, _, _)
\* the first facet, in precedence order from index f, that matches
matchQueryFrom(item, f, query, options) ==
    IF f > Len(Facets) THEN NotFound
    ELSE LET r == matchFacet(item, Facets[f], query, options)
         IN  IF r.type /= "not found" THEN r
             ELSE matchQueryFrom(item, f + 1, query, options)

matchQuery(item, query, options) == matchQueryFrom(item, 1, query, options)

stampMatchResults(item, queries, options) ==
    [item EXCEPT !.matchResults =
        [i \in 1..Len(queries) |-> matchQuery(item, queries[i], options)]]

\* ---------------------------------------------------------------- sorters
\* rules that compare match quality and so need a query
MatchQualityPriorities == {"exact-match-over-fuzzy"}

filterNoQueryPriorities(priorities) ==
    SelectSeq(priorities, LAMBDA p : p \notin MatchQualityPriorities)

fuzzyCount(item) ==
    Cardinality({i \in 1..Len(item.matchResults) :
        /\ item.matchResults[i].type /= "not found"
        /\ item.matchResults[i].score /= ExactScore})

sign(n) == IF n < 0 THEN -1 ELSE IF n > 0 THEN 1 ELSE 0

\* negative when a goes first, positive when b goes first, 0 on a tie
compareBy(a, b, priority, lastOpenFileIndexByPath) ==
    CASE priority = "exact-match-over-fuzzy" ->
            sign(fuzzyCount(a) - fuzzyCount(b))
      [] priority = "shorter-name-over-longer" ->
            sign(Len(a.file.basename) - Len(b.file.basename))
      [] priority = "starred-over-unstarred" ->
            sign((IF a.starred THEN 0 ELSE 1) - (IF b.starred THEN 0 ELSE 1))
      [] priority = "last-opened-recency" ->
            LET known(x) == x.file.path \in DOMAIN lastOpenFileIndexByPath
            IN  IF known(a) /\ known(b)
                THEN sign(lastOpenFileIndexByPath[a.file.path]
                          - lastOpenFileIndexByPath[b.file.path])
                ELSE IF known(a) THEN -1
                ELSE IF known(b) THEN 1
                ELSE 0
      [] OTHER -> 0

RECURSIVE compare(_, _, _, _)
\* the first rule of the list with a non-zero comparison decides
compare(a, b, priorities, lastOpenFileIndexByPath) ==
    IF priorities = <<>> THEN 0
    ELSE LET c == compareBy(a, b, Head(priorities), lastOpenFileIndexByPath)
         IN  IF c /= 0 THEN c
             ELSE compare(a, b, Tail(priorities), lastOpenFileIndexByPath)

RECURSIVE insertStable(_, _, _, _)
\* insertStable placing x before the first element it does not follow
insertStable_beforeTies(sorted, x, priorities, lastOpenFileIndexByPath) ==
    IF sorted = <<>> THEN <<x>>
    ELSE IF compare(x, Head(sorted), priorities, lastOpenFileIndexByPath) <= 0
         THEN <<x>> \o sorted
         ELSE <<Head(sorted)>> \o
              insertStable(Tail(sorted), x, priorities, lastOpenFileIndexByPath)

\* x placed before the first element it strictly precedes
insertStable(sorted, x, priorities, lastOpenFileIndexByPath) ==
    IF sorted = <<>> THEN <<x>>
    ELSE IF compare(x, Head(sorted), priorities, lastOpenFileIndexByPath) < 0
         THEN <<x>> \o sorted
         ELSE <<Head(sorted)>> \o
              insertStable(Tail(sorted), x, priorities, lastOpenFileIndexByPath)

RECURSIVE sortFrom(_, _, _, _)
sortFrom(sorted, rest, priorities, lastOpenFileIndexByPath) ==
    IF rest = <<>> THEN sorted
    ELSE sortFrom(insertStable(sorted, Head(rest), priorities, lastOpenFileIndexByPath),
                  Tail(rest), priorities, lastOpenFileIndexByPath)

sort(items, priorities, lastOpenFileIndexByPath) ==
    sortFrom(<<>>, items, priorities, lastOpenFileIndexByPath)

\* ---------------------------------------------------------------- the vault
NoFile == "no file"
NoCache == [none |-> TRUE]

TFile(path, basename, extension) ==
    [path |-> path, basename |-> basename, extension |-> extension]

Cache(aliases, tags, headings, links) ==
    [aliases |-> aliases, tags |-> tags, headings |-> headings, links |-> links]

\* app.vault.getFiles(), in the vault's order
VaultFiles == <<
    TFile("acb.md", <<"a", "c", "b">>, "md"),
    TFile("ab.md", <<"a", "b">>, "md"),
    TFile("B a.md", <<"B", " ", "a">>, "md"),
    TFile("c.md", <<"c">>, "md"),
    TFile("a_acute_b.md", <<"a_acute", "b">>, "md"),
    TFile("a.md", <<"a">>, "md"),
    TFile("x.png", <<"x">>, "png") >>

\* app.metadataCache.getFileCache(file): aliases, tags, headings and link
\* display texts of the file, NoCache when the file has no cache
getFileCache(file) ==
    CASE file.path = "acb.md" -> Cache(<<>>, <<>>, <<>>, <<<<"a", "b">>>>)
      [] file.path = "ab.md" -> Cache(<<>>, <<>>, <<>>, <<<<"c">>, <<"a">>>>)
      [] file.path = "B a.md" -> Cache(<<>>, <<<<"#", "b">>>>, <<<<"a", "a">>>>, <<>>)
      [] file.path = "c.md" ->
            Cache(<<>>, <<<<"#", "b">>>>, <<<<"a">>, <<"b", "c", "a">>>>, <<>>)
      [] file.path = "a_acute_b.md" -> Cache(<<>>, <<>>, <<>>, <<>>)
      [] file.path = "a.md" -> Cache(<<<<"b", "b">>>>, <<>>, <<>>, <<<<"b">>>>)
      [] OTHER -> NoCache

\* files the unresolved links of the vault point to
PhantomFiles == << TFile("b.md", <<"b">>, "md") >>

\* link source -> link targets (resolved and unresolved links merged),
\* each with the offset of the link in the source
LinkOffsets ==
    [src \in {"acb.md", "ab.md", "B a.md", "a.md"} |->
        CASE src = "acb.md" -> [t \in {"ab.md", "b.md"} |-> IF t = "ab.md" THEN 7 ELSE 2]
          [] src = "ab.md" -> [t \in {"c.md", "a.md"} |-> IF t = "c.md" THEN 5 ELSE 1]
          [] src = "B a.md" -> [t \in {"ab.md"} |-> 0]
          [] src = "a.md" -> [t \in {"acb.md"} |-> 4]]

StarredFilePaths == {"acb.md", "c.md"}

\* candidate values of app.workspace.getLastOpenFiles(), most recent first
LastOpenFilesChoices == { <<"B a.md", "ab.md", "a.md">> }

\* ---------------------------------------------------------------- settings
SearchCommand(ref, searchBy, searchTarget, fuzzy, minScore, sortPriorities, prefix, defaultInput) ==
    [ref |-> ref,
     searchBy |-> searchBy,
     searchTarget |-> searchTarget,
     allowFuzzySearchForSearchTarget |-> fuzzy,
     minFuzzyMatchScore |-> minScore,
     targetExtensions |-> <<>>,
     sortPriorities |-> sortPriorities,
     commandPrefix |-> prefix,
     defaultInput |-> defaultInput]

SearchBy(tag, header, link) == [tag |-> tag, header |-> header, link |-> link]

\* settings.searchCommands
SearchCommands == <<
    SearchCommand("main", SearchBy(TRUE, TRUE, TRUE), "file", TRUE, 3,
        <<"exact-match-over-fuzzy", "starred-over-unstarred", "last-opened-recency">>,
        <<"c">>, <<>>),
    SearchCommand("names", SearchBy(FALSE, FALSE, FALSE), "file", FALSE, 0,
        <<"shorter-name-over-longer", "last-opened-recency">>,
        <<"b", " ">>, <<"a", " ">>),
    SearchCommand("backlink", SearchBy(FALSE, TRUE, FALSE), "backlink", TRUE, 4,
        <<"last-opened-recency">>,
        <<>>, <<>>),
    SearchCommand("link", SearchBy(FALSE, FALSE, TRUE), "link", FALSE, 0,
        <<"starred-over-unstarred">>,
        <<"c", " ">>, <<>>) >>

MaxNumberOfSuggestionsChoices == {2, 9}

\* ---------------------------------------------------------------- the modal
VARIABLES
    settings,          \* maxNumberOfSuggestions, normalizeAccentsAndDiacritics,
                       \* hotkeys: the commands of hotkeys.main that have a key
    lastOpenFiles,     \* app.workspace.getLastOpenFiles()
    initialCommand, command, originFile,
    originItems, ignoredItems,
    searchQuery,
    opened,
    inputValue,        \* inputEl.value (initialInputQuery until onOpen)
    debouncePending,   \* the call debounceGetSuggestions holds until its timer fires
    values,            \* chooser.values: the suggestions delivered last
    countInputEl,      \* the "shown / total" element, NoEl when removed
    evaluation,        \* the locals of the latest _getSuggestions call
    \* the life of the modal and of its navigation chain
    closed,            \* close() has run onClose without willSilentClose
    isClosed,          \* the isClosed promise is resolved
    awaitingClosed,    \* a handler is suspended on "await this.isClosed"
    navQueue,          \* the callbacks chained on navQueue that have not finished:
                       \* the first one is running, the others wait
    navFailed,         \* the navQueue promise chain is rejected
    keptOpen,          \* the choices made so far that kept the modal open
    initialState,      \* the captured leaf state, NoState when undefined
    leafView,          \* the file the leaf of the workspace shows
    navigationHistories, currentNavigationHistoryIndex, stackHistory,
    created,           \* the paths created in the vault
    notice,            \* the text of the Notice shown last
    lastOp,            \* the key handler that ran last and what it found
    \* the header modal
    headerItems,       \* items: the headers of the active file
    hitItems,          \* the indices of the headers the query hits
    unsafeSelectedIndex,
    headerFloating,    \* floating: select previews the header
    headerThrown       \* a key handler of the header modal threw

modalVars == <<settings, lastOpenFiles, initialCommand, command, originFile,
               originItems, ignoredItems, searchQuery, opened, inputValue,
               debouncePending, values, countInputEl, evaluation>>

navVars == <<closed, isClosed, awaitingClosed, navQueue, navFailed, keptOpen,
             initialState, leafView, navigationHistories,
             currentNavigationHistoryIndex, stackHistory, created, notice, lastOp>>

headerVars == <<headerItems, hitItems, unsafeSelectedIndex, headerFloating,
                headerThrown>>

vars == <<modalVars, navVars, headerVars>>

NoEl == [none |-> TRUE]
NoCall == [none |-> TRUE]
NoEvaluation == [none |-> TRUE]

QueryChars == {"a", "b", " "}

\* phantomItems of the constructor
phantomItems ==
    [i \in 1..Len(PhantomFiles) |->
        [file |-> PhantomFiles[i], aliases |-> <<>>, tags |-> <<>>, headers |-> <<>>,
         links |-> <<>>, phantom |-> TRUE, starred |-> FALSE,
         matchResults |-> <<>>,
         tokens |-> splitBy(PhantomFiles[i].basename, {" "}, <<>>)]]

\* createBacklinksMap()[path]: the paths of the files that link to path
backlinksOf(path) ==
    {src \in DOMAIN LinkOffsets : path \in DOMAIN LinkOffsets[src]}

\* createLinksMap(file): link target -> offset of the first link to it
createLinksMap(path) ==
    IF path \in DOMAIN LinkOffsets THEN LinkOffsets[path] ELSE << >>

RECURSIVE insertByOffset(_, _, _)
insertByOffset(sorted, x, linkMap) ==
    IF sorted = <<>> THEN <<x>>
    ELSE IF linkMap[x.file.path] < linkMap[Head(sorted).file.path]
         THEN <<x>> \o sorted
         ELSE <<Head(sorted)>> \o insertByOffset(Tail(sorted), x, linkMap)

RECURSIVE sortByOffset(_, _)
\* Array.prototype.sort(sorter(offset of the link)): stable, ascending
sortByOffset(xs, linkMap) ==
    IF xs = <<>> THEN <<>>
    ELSE insertByOffset(sortByOffset(SubSeq(xs, 1, Len(xs) - 1), linkMap),
                        xs[Len(xs)], linkMap)

\* the item indexingItems makes of a vault file
fileItem(x, cmd) ==
    [file |-> x,
     aliases |-> getFileCache(x).aliases,
     tags |-> IF cmd.searchBy.tag THEN getFileCache(x).tags ELSE <<>>,
     headers |-> IF cmd.searchBy.header THEN getFileCache(x).headings ELSE <<>>,
     links |-> IF cmd.searchBy.link THEN getFileCache(x).links ELSE <<>>,
     phantom |-> FALSE,
     starred |-> x.path \in StarredFilePaths,
     matchResults |-> <<>>,
     tokens |-> splitBy(x.basename, {" "}, <<>>)]

cachedFiles(origin) ==
    SelectSeq(VaultFiles, LAMBDA x : x.path /= origin /\ getFileCache(x) /= NoCache)

fileItems(cmd, origin) ==
    [i \in 1..Len(cachedFiles(origin)) |-> fileItem(cachedFiles(origin)[i], cmd)]

prefilterItems(cmd, origin, items) ==
    LET byExtension ==
            IF Len(cmd.targetExtensions) > 0
            THEN SelectSeq(items, LAMBDA x :
                     \E i \in 1..Len(cmd.targetExtensions) :
                         cmd.targetExtensions[i] = x.file.extension)
            ELSE items
    IN  CASE cmd.searchTarget = "file" -> byExtension
          [] cmd.searchTarget = "backlink" ->
                SelectSeq(byExtension, LAMBDA x :
                    origin /= NoFile /\ x.file.path \in backlinksOf(origin))
          [] cmd.searchTarget = "link" ->
                LET linkMap == IF origin /= NoFile THEN createLinksMap(origin) ELSE << >>
                IN  sortByOffset(
                        SelectSeq(byExtension, LAMBDA x : x.file.path \in DOMAIN linkMap),
                        linkMap)

\* indexingItems(): the new originItems and ignoredItems
indexingItems(cmd, origin) ==
    LET all == fileItems(cmd, origin) \o phantomItems
    IN  [originItems |-> all, ignoredItems |-> prefilterItems(cmd, origin, all)]

\* ---------------------------------------------------------------- _getSuggestions
NoCommand == [none |-> TRUE]

Min(a, b) == IF a < b THEN a ELSE b

\* path -> index in getLastOpenFiles(); a later index overwrites an earlier one
\* lastOpenFileIndexByPath missing the most recent file
lastOpenFileIndexByPath_skipFirst(files) ==
    [p \in {files[i] : i \in 2..Len(files)} |->
        (CHOOSE i \in 2..Len(files) :
            files[i] = p /\ \A j \in 2..Len(files) : files[j] = p => j <= i) - 1]

\* lastOpenFileIndexByPath counting from the end of the list
lastOpenFileIndexByPath_fromEnd(files) ==
    [p \in {files[i] : i \in 1..Len(files)} |->
        Len(files) - (CHOOSE i \in 1..Len(files) :
            files[i] = p /\ \A j \in 1..Len(files) : files[j] = p => j <= i)]

lastOpenFileIndexByPath(files) ==
    [p \in {files[i] : i \in 1..Len(files)} |->
        (CHOOSE i \in 1..Len(files) :
            files[i] = p /\ \A j \in 1..Len(files) : files[j] = p => j <= i) - 1]

\* commandByPrefix taking the last entry whose prefix starts the query
commandByPrefix_last(query) ==
    LET found == SelectSeq(SearchCommands, LAMBDA x :
                     x.commandPrefix /= <<>> /\ startsWith(query, x.commandPrefix))
    IN  IF found = <<>> THEN NoCommand ELSE found[Len(found)]

\* _getSuggestions: the first command with a prefix the query starts with
commandByPrefix(query) ==
    LET found == SelectSeq(SearchCommands, LAMBDA x :
                     x.commandPrefix /= <<>> /\ startsWith(query, x.commandPrefix))
    IN  IF found = <<>> THEN NoCommand ELSE Head(found)

\* the command after the switch at the top of _getSuggestions
activeCommand(query, cmd, initial) ==
    LET byPrefix == commandByPrefix(query)
    IN  IF /\ (byPrefix /= NoCommand \/ initial.ref /= cmd.ref)
           /\ (byPrefix = NoCommand \/ byPrefix.ref /= cmd.ref)
        THEN IF byPrefix /= NoCommand THEN byPrefix ELSE initial
        ELSE cmd

\* toSearchQuery leaving the command prefix in the search query
toSearchQuery_keepPrefix(query, cmd) ==
    IF cmd.defaultInput /= <<>> THEN cmd.defaultInput \o query ELSE query

toSearchQuery(query, cmd) ==
    LET stripped == IF startsWith(query, cmd.commandPrefix)
                    THEN SubSeq(query, Len(cmd.commandPrefix) + 1, Len(query))
                    ELSE query
    IN  IF cmd.defaultInput /= <<>> THEN cmd.defaultInput \o stripped ELSE stripped

\* matchOptions never asking for accents and diacritics to be folded
matchOptions_noFold(cmd, sett) ==
    [isNormalizeAccentsDiacritics |-> FALSE,
     searchByHeaders |-> cmd.searchBy.header,
     searchByLinks |-> cmd.searchBy.link,
     searchByTags |-> cmd.searchBy.tag,
     fuzzyTarget |-> cmd.allowFuzzySearchForSearchTarget,
     minFuzzyScore |-> cmd.minFuzzyMatchScore]

\* matchOptions allowing fuzzy matches whatever the command says
matchOptions_fuzzyAlways(cmd, sett) ==
    [isNormalizeAccentsDiacritics |-> sett.normalizeAccentsAndDiacritics,
     searchByHeaders |-> cmd.searchBy.header,
     searchByLinks |-> cmd.searchBy.link,
     searchByTags |-> cmd.searchBy.tag,
     fuzzyTarget |-> TRUE,
     minFuzzyScore |-> cmd.minFuzzyMatchScore]

\* the options _getSuggestions hands to stampMatchResults
matchOptions(cmd, sett) ==
    [isNormalizeAccentsDiacritics |-> sett.normalizeAccentsAndDiacritics,
     searchByHeaders |-> cmd.searchBy.header,
     searchByLinks |-> cmd.searchBy.link,
     searchByTags |-> cmd.searchBy.tag,
     fuzzyTarget |-> cmd.allowFuzzySearchForSearchTarget,
     minFuzzyScore |-> cmd.minFuzzyMatchScore]

\* matchedSuggestions searching every facet of the files, whatever searchBy says
matchedSuggestions_everyFacet(items, qs, isQueryEmpty, cmd, sett) ==
    IF isQueryEmpty THEN items
    ELSE SelectSeq(
            [i \in 1..Len(items) |->
                stampMatchResults(
                    IF items[i].phantom THEN items[i]
                    ELSE fileItem(items[i].file,
                                  [cmd EXCEPT !.searchBy = SearchBy(TRUE, TRUE, TRUE)]),
                    qs,
                    matchOptions([cmd EXCEPT !.searchBy = SearchBy(TRUE, TRUE, TRUE)], sett))],
            LAMBDA x : \A i \in 1..Len(x.matchResults) :
                           x.matchResults[i].type /= "not found")

\* matchedSuggestions stamping the first token only
matchedSuggestions_firstToken(items, qs, isQueryEmpty, cmd, sett) ==
    IF isQueryEmpty THEN items
    ELSE SelectSeq(
            [i \in 1..Len(items) |->
                stampMatchResults(items[i], SubSeq(qs, 1, 1), matchOptions(cmd, sett))],
            LAMBDA x : \A i \in 1..Len(x.matchResults) :
                           x.matchResults[i].type /= "not found")

\* matchedSuggestions offering nothing for an empty query
matchedSuggestions_noneWhenEmpty(items, qs, isQueryEmpty, cmd, sett) ==
    IF isQueryEmpty THEN <<>>
    ELSE SelectSeq(
            [i \in 1..Len(items) |-> stampMatchResults(items[i], qs, matchOptions(cmd, sett))],
            LAMBDA x : \A i \in 1..Len(x.matchResults) :
                           x.matchResults[i].type /= "not found")

\* matchedSuggestions keeping an item when some token is found
matchedSuggestions_someToken(items, qs, isQueryEmpty, cmd, sett) ==
    IF isQueryEmpty THEN items
    ELSE SelectSeq(
            [i \in 1..Len(items) |-> stampMatchResults(items[i], qs, matchOptions(cmd, sett))],
            LAMBDA x : \E i \in 1..Len(x.matchResults) :
                           x.matchResults[i].type /= "not found")

matchedSuggestions(items, qs, isQueryEmpty, cmd, sett) ==
    IF isQueryEmpty THEN items
    ELSE SelectSeq(
            [i \in 1..Len(items) |-> stampMatchResults(items[i], qs, matchOptions(cmd, sett))],
            LAMBDA x : \A i \in 1..Len(x.matchResults) :
                           x.matchResults[i].type /= "not found")

\* sortedSuggestions always sorting by the rules of an empty query
sortedSuggestions_noQueryPriorities(matched, isQueryEmpty, cmd, files) ==
    sort(matched, filterNoQueryPriorities(cmd.sortPriorities),
         lastOpenFileIndexByPath(files))

sortedSuggestions(matched, isQueryEmpty, cmd, files) ==
    sort(matched,
         IF isQueryEmpty THEN filterNoQueryPriorities(cmd.sortPriorities)
                         ELSE cmd.sortPriorities,
         lastOpenFileIndexByPath(files))

countInput(items, sett) ==
    [shown |-> Min(Len(items), sett.maxNumberOfSuggestions), total |-> Len(items)]

\* returnedSuggestions numbering the items from 1
returnedSuggestions_orderFromOne(items, sett) ==
    [i \in 1..Min(Len(items), sett.maxNumberOfSuggestions) |->
        items[i] @@ [order |-> i]]

\* items.slice(0, max).map((x, order) => ({ ...x, order }))
returnedSuggestions(items, sett) ==
    [i \in 1..Min(Len(items), sett.maxNumberOfSuggestions) |->
        items[i] @@ [order |-> i - 1]]

\* the end of _getSuggestions, from the count element on: the fields the call
\* leaves behind, the list it returns and its locals
suggestions(query, cmd, index, sq, noOrigin, items) ==
    [command |-> cmd,
     originItems |-> index.originItems,
     ignoredItems |-> index.ignoredItems,
     searchQuery |-> sq,
     countInputEl |-> IF noOrigin THEN NoEl ELSE countInput(items, settings),
     result |-> IF noOrigin THEN <<>> ELSE returnedSuggestions(items, settings),
     locals |-> [query |-> query, qs |-> smartWhitespaceSplit(sq),
                 returnedEarly |-> noOrigin, indexed |-> index.indexed,
                 isQueryEmpty |-> trim(sq) = <<>>, items |-> items]]

\* search reordering this.ignoredItems itself when it sorts them
search_sortInPlace(query, cmd, index, sq) ==
    suggestions(query, cmd,
        IF trim(sq) = <<>> /\ ~(cmd.searchTarget = "backlink" /\ originFile = NoFile)
        THEN [index EXCEPT !.ignoredItems =
                 sortedSuggestions(index.ignoredItems, TRUE, cmd, lastOpenFiles)]
        ELSE index,
        sq,
        cmd.searchTarget = "backlink" /\ originFile = NoFile,
        IF cmd.searchTarget = "backlink" /\ originFile = NoFile THEN <<>>
        ELSE sortedSuggestions(
                matchedSuggestions(index.ignoredItems, smartWhitespaceSplit(sq),
                                   trim(sq) = <<>>, cmd, settings),
                trim(sq) = <<>>, cmd, lastOpenFiles))

\* _getSuggestions once the command and the search query are set: the early
\* return of a backlink search without origin file, then matching and sorting
search(query, cmd, index, sq) ==
    suggestions(query, cmd, index, sq,
        cmd.searchTarget = "backlink" /\ originFile = NoFile,
        IF cmd.searchTarget = "backlink" /\ originFile = NoFile THEN <<>>
        ELSE sortedSuggestions(
                matchedSuggestions(index.ignoredItems, smartWhitespaceSplit(sq),
                                   trim(sq) = <<>>, cmd, settings),
                trim(sq) = <<>>, cmd, lastOpenFiles))

\* switchCommand keeping the indexed items when the command changes
switchCommand_keepItems(query, cmd) ==
    search(query, cmd,
        [originItems |-> originItems, ignoredItems |-> ignoredItems,
         indexed |-> cmd.ref /= command.ref],
        toSearchQuery(query, cmd))

\* _getSuggestions from the command switch on: the items are indexed again
\* when the command changes; indexed tells whether indexingItems ran
switchCommand(query, cmd) ==
    search(query, cmd,
        IF cmd.ref /= command.ref
        THEN indexingItems(cmd, originFile) @@ [indexed |-> TRUE]
        ELSE [originItems |-> originItems, ignoredItems |-> ignoredItems,
              indexed |-> FALSE],
        toSearchQuery(query, cmd))

\* the whole of _getSuggestions(query) on the current modal
_getSuggestions(query) ==
    switchCommand(query, activeCommand(query, command, initialCommand))

\* the effects of a _getSuggestions call that returned e and whose result is shown
Deliver(e) ==
    /\ command' = e.command
    /\ originItems' = e.originItems
    /\ ignoredItems' = e.ignoredItems
    /\ searchQuery' = e.searchQuery
    /\ countInputEl' = e.countInputEl
    /\ values' = e.result
    /\ evaluation' = e.locals

Evaluate(query) == Deliver(_getSuggestions(query))

\* createItemDiv: the hot-key guide shown on an item, 0 when none is shown
hotKeyGuide(item) == IF item.order < 9 THEN item.order + 1 ELSE 0

\* the quick-select key n: chooser.setSelectedItem(n - 1), then the item
\* chooseCurrentSuggestion reads, chooser.values[selectedItem]
quickSelected(n) == values[(n - 1) + 1]

NoOffset == -1

\* findFirstHeaderOffset(file, header): the place of the first heading of the
\* file with that text (headings are placed by their rank in the file),
\* NoOffset for null
findFirstHeaderOffset(file, header) ==
    IF getFileCache(file) = NoCache THEN NoOffset
    ELSE LET found == {i \in 1..Len(getFileCache(file).headings) :
                          getFileCache(file).headings[i] = header}
         IN  IF found = {} THEN NoOffset
             ELSE CHOOSE i \in found : \A j \in found : i <= j

\* chooseCurrentSuggestion: the offset to jump to in a file search, from
\* meta[0] of the first match result when its type is header
headerOffset(item) ==
    IF /\ item.matchResults /= <<>>
       /\ item.matchResults[1].type = "header"
    THEN findFirstHeaderOffset(item.file, item.matchResults[1].meta[1])
    ELSE NoOffset

\* ---------------------------------------------------------------- the navigation chain
MaxPreviews == 2
MaxHistories == 2
MaxSelected == 2

NoState == [none |-> TRUE]
NoOp == [op |-> "none"]

\* the texts put in the input of a modal of the chain
NavQueries == {<<>>, <<"b">>, <<"c">>}

\* the texts put in the input of a modal to switch commands by prefix
PrefixQueries ==
    {<<>>, <<"b">>, <<"c">>, <<"a", " ">>, <<"b", " ">>, <<"c", " ">>,
     <<"b", " ", "b">>, <<"c", " ", "b">>}

\* candidate values of settings.hotkeys.main: the commands that have a key
HotkeysChoices ==
    { {"show links", "show backlinks", "navigate back", "navigate forward"},
      {"preview", "open in new tab in background", "insert to editor",
       "insert to editor in background", "create"},
      {"preview", "show backlinks"} }

\* registerKeys(key, handler): the handler runs only for a command with a key
registered(key) == key \in settings.hotkeys

\* the texts tried in the input: the prefix texts in a modal without key
\* handlers, the texts of the chain otherwise
PastedQueries == IF settings.hotkeys = {} THEN PrefixQueries ELSE NavQueries

\* the ways chooseCurrentSuggestion is called: leaf and keepOpen; a click and
\* the quick selection choose in the same tab without a hot key
LeafChoices ==
    {<<"same-tab", FALSE>>}
    \cup {<<"new-tab-background", TRUE>> :
              x \in {y \in {0} : registered("open in new tab in background")}}
    \cup {<<"same-tab", TRUE>> : x \in {y \in {0} : registered("preview")}}

\* the places chooser.selectedItem takes in a list of suggestions
Selectable(xs) == 1..Min(Len(xs), MaxSelected)

\* file.path as a text: the basename, then the extension
pathText(file) ==
    Append(file.basename, IF file.extension = "md" THEN ".md" ELSE ".png")

\* the text of the path of the file at path, <<>> for no file
pathTextAt(path) ==
    LET all == VaultFiles \o PhantomFiles
        found == {i \in 1..Len(all) : all[i].path = path}
    IN  IF found = {} THEN <<>> ELSE pathText(all[CHOOSE i \in found : TRUE])

\* { ...command }: a new object with the fields of command
copyOf(cmd) == [cmd EXCEPT !.ref = "copy"]

createDefaultLinkSearchCommand ==
    SearchCommand("default link", SearchBy(FALSE, FALSE, FALSE), "link", FALSE, 0,
        <<>>, <<>>, <<>>)

createDefaultBacklinkSearchCommand ==
    [SearchCommand("default backlink", SearchBy(FALSE, FALSE, FALSE), "backlink",
         FALSE, 0, <<"last-opened-recency">>, <<>>, <<>>)
     EXCEPT !.targetExtensions = <<"md">>]

\* an entry of navigationHistories
CustomSearchHistory(query, cmd, origin) ==
    [inputQuery |-> query, command |-> copyOf(cmd), originFile |-> origin]

\* a callback chained on navQueue
Callback(op, file, leaf, inplace) ==
    [op |-> op, file |-> file, leaf |-> leaf, inplace |-> inplace]

restoreCallback == Callback("restore", <<>>, "", FALSE)
markClosed == Callback("markClosed", <<>>, "", FALSE)
awaitIsClosed == Callback("isClosed", <<>>, "", FALSE)

\* navigate(cb): this.navQueue.then(cb); a rejected chain calls no callback
navigate(queue, cb) == IF navFailed THEN queue ELSE Append(queue, cb)

RECURSIVE settle(_, _)
\* the chain once its microtasks have run: markClosed and the wait for a
\* resolved isClosed finish at once, restore and openFile take time
settle(queue, resolved) ==
    IF queue = <<>> THEN [navQueue |-> <<>>, isClosed |-> resolved]
    ELSE CASE Head(queue).op = "markClosed" -> settle(Tail(queue), TRUE)
           [] Head(queue).op = "isClosed" /\ resolved -> settle(Tail(queue), resolved)
           [] OTHER -> [navQueue |-> queue, isClosed |-> resolved]

\* onClose never restoring the captured state
onClose_noRestore(queue) == navigate(queue, markClosed)

\* onClose resolving isClosed before the captured state is restored
onClose_markFirst(queue) ==
    navigate(IF initialState /= NoState
             THEN navigate(queue, markClosed)
             ELSE queue, restoreCallback)

\* onClose() without willSilentClose: the restore of a captured state, then
\* markClosed
onClose(queue) ==
    navigate(IF initialState /= NoState THEN navigate(queue, restoreCallback) ELSE queue,
             markClosed)

\* appHelper.captureState(): the view of the leaf, and the leaf
captureState == [view |-> leafView, leaf |-> TRUE]

\* the view of the leaf after CaptureState.restore()
restoredView(state) == IF state.leaf THEN state.view ELSE leafView

\* getLinkpath(linkText): the link text up to its first "#"
getLinkpath(linkText) ==
    LET marks == {i \in 1..Len(linkText) : linkText[i] = "#"}
    IN  IF marks = {} THEN linkText
        ELSE SubSeq(linkText, 1, (CHOOSE i \in marks : \A j \in marks : i <= j) - 1)

\* getPathToBeCreated(linkText), new files being placed in the root folder
getPathToBeCreated(linkText) ==
    LET linkPath == getLinkpath(linkText)
    IN  IF linkPath /= <<>> /\ linkPath[Len(linkPath)] = ".md" THEN linkPath
        ELSE Append(linkPath, ".md")

\* exists knowing only the files the vault had when the modal was built
exists_vaultOnly(path) ==
    \E i \in 1..Len(VaultFiles) : pathText(VaultFiles[i]) = path

\* vault.adapter.exists(path)
exists(path) ==
    \/ \E i \in 1..Len(VaultFiles) : pathText(VaultFiles[i]) = path
    \/ path \in created

\* the constructor: the fields of a new modal
Construct(cmd, origin, inputQuery) ==
    /\ initialCommand' = cmd
    /\ command' = cmd
    /\ originFile' = origin
    /\ originItems' = indexingItems(cmd, origin).originItems
    /\ ignoredItems' = indexingItems(cmd, origin).ignoredItems
    /\ searchQuery' = <<>>
    /\ opened' = FALSE
    /\ inputValue' = inputQuery
    /\ debouncePending' = NoCall
    /\ values' = <<>>
    /\ countInputEl' = NoEl
    /\ evaluation' = NoEvaluation

\* the fields showSearchDialog gives the first modal of a chain
NewChain ==
    /\ closed = FALSE
    /\ isClosed = FALSE
    /\ awaitingClosed = FALSE
    /\ navQueue = <<>>
    /\ navFailed = FALSE
    /\ keptOpen = 0
    /\ initialState = NoState
    /\ leafView = pathTextAt(originFile)
    /\ navigationHistories = <<>>
    /\ currentNavigationHistoryIndex = 0
    /\ stackHistory = TRUE
    /\ created = {}
    /\ notice = ""
    /\ lastOp = NoOp

\* no header modal
NoHeaderModal ==
    /\ headerItems = <<>>
    /\ hitItems = <<>>
    /\ unsafeSelectedIndex = 0
    /\ headerFloating = FALSE
    /\ headerThrown = FALSE

\* ---------------------------------------------------------------- actions
Init ==
    /\ settings \in [maxNumberOfSuggestions : MaxNumberOfSuggestionsChoices,
                     normalizeAccentsAndDiacritics : BOOLEAN,
                     hotkeys : {{}}]
    /\ lastOpenFiles \in LastOpenFilesChoices
    /\ initialCommand \in {SearchCommands[i] : i \in 1..Len(SearchCommands)}
    /\ command = initialCommand
    /\ originFile \in {NoFile, "ab.md"}
    /\ originItems = indexingItems(initialCommand, originFile).originItems
    /\ ignoredItems = indexingItems(initialCommand, originFile).ignoredItems
    /\ searchQuery = <<>>
    /\ opened = FALSE
    /\ inputValue = <<>>
    /\ debouncePending = NoCall
    /\ values = <<>>
    /\ countInputEl = NoEl
    /\ evaluation = NoEvaluation
    /\ NewChain
    /\ NoHeaderModal

\* onOpen never stacking the modal on the navigation history
stackedHistories_never(histories, stack, history) == histories

\* onOpen(): if (this.stackHistory) this.navigationHistories.push(history)
stackedHistories(histories, stack, history) ==
    IF stack THEN Append(histories, history) ELSE histories

\* onOpen(): the input event it dispatches is answered at once (not opened
\* yet), then the modal is stacked on the navigation history
OnOpen ==
    /\ ~opened
    /\ Evaluate(inputValue)
    /\ navigationHistories' =
            stackedHistories(navigationHistories, stackHistory,
                             CustomSearchHistory(inputValue, command', originFile))
    /\ opened' = TRUE
    /\ UNCHANGED <<settings, lastOpenFiles, initialCommand, originFile,
                   inputValue, debouncePending>>
    /\ UNCHANGED <<closed, isClosed, awaitingClosed, navQueue, navFailed, keptOpen,
                   initialState, leafView, currentNavigationHistoryIndex,
                   stackHistory, created, notice, lastOp>>
    /\ UNCHANGED headerVars

\* the texts one keystroke makes of the input
Keystrokes(text) ==
    {Append(text, c) : c \in {x \in QueryChars : Len(text) < MaxQueryLen}}
    \cup {SubSeq(text, 1, Len(text) - 1) : x \in {y \in {0} : Len(text) > 0}}

\* getSuggestions(query), answered at once
InputImmediate ==
    /\ opened
    /\ \E query \in Keystrokes(inputValue) :
        /\ query = <<>> \/ query = command.defaultInput
        /\ inputValue' = query
        /\ Evaluate(query)
    /\ UNCHANGED <<settings, lastOpenFiles, initialCommand, originFile,
                   opened, debouncePending>>
    /\ UNCHANGED <<navVars, headerVars>>

\* getSuggestions(query), handed to the debouncer: the timer restarts and the
\* call replaces the one held
InputDebounced ==
    /\ opened
    /\ \E query \in Keystrokes(inputValue) :
        /\ ~(query = <<>> \/ query = command.defaultInput)
        /\ inputValue' = query
        /\ debouncePending' = [query |-> query]
    /\ UNCHANGED <<settings, lastOpenFiles, initialCommand, command, originFile,
                   originItems, ignoredItems, searchQuery, opened, values,
                   countInputEl, evaluation>>
    /\ UNCHANGED <<navVars, headerVars>>

\* the debounce timer fires: cb(this._getSuggestions(query))
DebounceFire ==
    /\ debouncePending /= NoCall
    /\ Evaluate(debouncePending.query)
    /\ debouncePending' = NoCall
    /\ UNCHANGED <<settings, lastOpenFiles, initialCommand, originFile,
                   opened, inputValue>>
    /\ UNCHANGED <<navVars, headerVars>>

Next ==
    \/ OnOpen
    \/ InputImmediate
    \/ InputDebounced
    \/ DebounceFire

Spec == Init /\ [][Next]_vars

\* ---------------------------------------------------------------- the chain's actions
\* the first modal of a chain, built by showSearchDialog for the link search
\* of the active file
InitNav ==
    /\ settings \in [maxNumberOfSuggestions : {9},
                     normalizeAccentsAndDiacritics : {TRUE},
                     hotkeys : HotkeysChoices]
    /\ lastOpenFiles \in LastOpenFilesChoices
    /\ initialCommand = SearchCommands[4]
    /\ command = initialCommand
    /\ originFile = "acb.md"
    /\ originItems = indexingItems(initialCommand, originFile).originItems
    /\ ignoredItems = indexingItems(initialCommand, originFile).ignoredItems
    /\ searchQuery = <<>>
    /\ opened = FALSE
    /\ inputValue = <<>>
    /\ debouncePending = NoCall
    /\ values = <<>>
    /\ countInputEl = NoEl
    /\ evaluation = NoEvaluation
    /\ NewChain
    /\ NoHeaderModal

\* a modal without key handlers, opened for any of the search commands
InitPrefix ==
    /\ settings \in [maxNumberOfSuggestions : {9},
                     normalizeAccentsAndDiacritics : {TRUE},
                     hotkeys : {{}}]
    /\ lastOpenFiles \in LastOpenFilesChoices
    /\ initialCommand \in {SearchCommands[i] : i \in DOMAIN SearchCommands}
    /\ command = initialCommand
    /\ originFile = "ab.md"
    /\ originItems = indexingItems(initialCommand, originFile).originItems
    /\ ignoredItems = indexingItems(initialCommand, originFile).ignoredItems
    /\ searchQuery = <<>>
    /\ opened = FALSE
    /\ inputValue = <<>>
    /\ debouncePending = NoCall
    /\ values = <<>>
    /\ countInputEl = NoEl
    /\ evaluation = NoEvaluation
    /\ NewChain
    /\ NoHeaderModal

\* a text is put in the input and getSuggestions answers at once
PasteImmediate ==
    /\ opened /\ ~closed
    /\ \E query \in PastedQueries \ {inputValue} :
        /\ query = <<>> \/ query = command.defaultInput
        /\ inputValue' = query
        /\ Evaluate(query)
    /\ UNCHANGED <<settings, lastOpenFiles, initialCommand, originFile,
                   opened, debouncePending>>
    /\ UNCHANGED <<navVars, headerVars>>

\* a text is put in the input and getSuggestions hands the call to the debouncer
PasteDebounced ==
    /\ opened /\ ~closed
    /\ \E query \in PastedQueries \ {inputValue} :
        /\ ~(query = <<>> \/ query = command.defaultInput)
        /\ inputValue' = query
        /\ debouncePending' = [query |-> query]
    /\ UNCHANGED <<settings, lastOpenFiles, initialCommand, command, originFile,
                   originItems, ignoredItems, searchQuery, opened, values,
                   countInputEl, evaluation>>
    /\ UNCHANGED <<navVars, headerVars>>

\* chooseCurrentSuggestion(leaf, {keepOpen}) on the item selected in the chooser
ChooseCurrentSuggestion ==
    /\ opened /\ ~closed
    /\ \E choice \in LeafChoices :
        /\ choice[2] => keptOpen < MaxPreviews
        /\ IF values = <<>>
           THEN /\ lastOp' = [op |-> "choose", result |-> "no item"]
                /\ UNCHANGED <<closed, isClosed, navQueue, initialState, created,
                               keptOpen>>
           ELSE \E i \in Selectable(values) :
                LET item == values[i]
                    path == pathText(item.file)
                    open == Callback("openFile", path, choice[1], choice[2])
                    queue == IF ~choice[2]
                             THEN navigate(navigate(onClose(navQueue), awaitIsClosed), open)
                             ELSE navigate(navQueue, open)
                IN  IF item.phantom /\ exists(path)
                    THEN \* vault.create rejects: the file already exists
                         /\ lastOp' = [op |-> "choose", result |-> "threw",
                                       phantom |-> TRUE, path |-> path]
                         /\ UNCHANGED <<closed, isClosed, navQueue, initialState,
                                        created, keptOpen>>
                    ELSE /\ created' = IF item.phantom THEN created \cup {path}
                                       ELSE created
                         /\ closed' = ~choice[2]
                         /\ keptOpen' = IF choice[2] THEN keptOpen + 1 ELSE keptOpen
                         /\ initialState' =
                                IF choice[2] /\ choice[1] = "same-tab" /\ initialState = NoState
                                THEN captureState
                                ELSE initialState
                         /\ navQueue' = settle(queue, isClosed).navQueue
                         /\ isClosed' = settle(queue, isClosed).isClosed
                         /\ lastOp' = [op |-> "choose", result |-> "queued",
                                       phantom |-> item.phantom, path |-> path]
    /\ UNCHANGED modalVars
    /\ UNCHANGED <<awaitingClosed, navFailed, leafView,
                   navigationHistories, currentNavigationHistoryIndex,
                   stackHistory, notice>>
    /\ UNCHANGED headerVars

\* close(), and safeClose() with the handler awaiting isClosed
Close ==
    /\ opened /\ ~closed
    /\ closed' = TRUE
    /\ navQueue' = settle(onClose(navQueue), isClosed).navQueue
    /\ isClosed' = settle(onClose(navQueue), isClosed).isClosed
    /\ \E awaits \in {FALSE} \cup {registered("insert to editor")} :
        /\ awaitingClosed' = (awaits /\ ~isClosed')
        /\ lastOp' = [op |-> "close", awaits |-> awaits]
    /\ UNCHANGED modalVars
    /\ UNCHANGED <<navFailed, keptOpen, initialState, leafView,
                   navigationHistories, currentNavigationHistoryIndex,
                   stackHistory, created, notice>>
    /\ UNCHANGED headerVars

\* the running callback of navQueue, a restore or an openFile, finishes; an
\* openFile may reject, and a rejected chain calls none of the callbacks
\* chained after it
RunQueued ==
    /\ navQueue /= <<>>
    /\ Head(navQueue).op \in {"restore", "openFile"}
    /\ LET cb == Head(navQueue)
       IN  \E ok \in BOOLEAN :
               /\ ok \/ cb.op = "openFile"
               /\ IF ok
                  THEN /\ navQueue' = settle(Tail(navQueue), isClosed).navQueue
                       /\ isClosed' = settle(Tail(navQueue), isClosed).isClosed
                       /\ navFailed' = navFailed
                       /\ leafView' =
                            CASE cb.op = "restore" -> restoredView(initialState)
                              [] cb.op = "openFile" /\ cb.leaf = "same-tab" -> cb.file
                              [] OTHER -> leafView
                       /\ initialState' =
                            IF cb.op = "restore"
                            THEN [initialState EXCEPT !.leaf = FALSE]
                            ELSE initialState
                  ELSE /\ navQueue' = <<>>
                       /\ navFailed' = TRUE
                       /\ UNCHANGED <<isClosed, leafView, initialState>>
    /\ awaitingClosed' = (awaitingClosed /\ ~isClosed')
    /\ UNCHANGED modalVars
    /\ UNCHANGED <<closed, keptOpen, navigationHistories,
                   currentNavigationHistoryIndex, stackHistory, created, notice,
                   lastOp>>
    /\ UNCHANGED headerVars

\* "show links" and "show backlinks": navigateLinks(command) up to the new modal
NavigateLinks ==
    /\ opened /\ ~closed
    /\ currentNavigationHistoryIndex + 2 <= MaxHistories
    /\ \E cmd \in {createDefaultLinkSearchCommand, createDefaultBacklinkSearchCommand} :
        /\ registered(IF cmd.searchTarget = "link" THEN "show links" ELSE "show backlinks")
        /\ IF values = <<>>
           THEN /\ lastOp' = [op |-> "navigate links", result |-> "no file"]
                /\ UNCHANGED modalVars
                /\ UNCHANGED <<navigationHistories, currentNavigationHistoryIndex,
                               stackHistory>>
           ELSE \E i \in Selectable(values) :
                /\ Construct(copyOf(cmd), values[i].file.path, <<>>)
                /\ navigationHistories' =
                       Append(SubSeq(navigationHistories, 1, currentNavigationHistoryIndex),
                              CustomSearchHistory(inputValue, command, originFile))
                /\ currentNavigationHistoryIndex' = currentNavigationHistoryIndex + 1
                /\ stackHistory' = TRUE
                /\ lastOp' = [op |-> "navigate links", result |-> "new modal"]
                /\ UNCHANGED <<settings, lastOpenFiles>>
    /\ UNCHANGED <<closed, isClosed, awaitingClosed, navQueue, navFailed, keptOpen,
                   initialState, leafView, created, notice>>
    /\ UNCHANGED headerVars

\* "navigate back" and "navigate forward": navigate(index) up to the new modal
NavigateHistory ==
    /\ opened /\ ~closed
    /\ \E index \in {currentNavigationHistoryIndex - 1, currentNavigationHistoryIndex + 1} :
        /\ registered(IF index < currentNavigationHistoryIndex
                      THEN "navigate back" ELSE "navigate forward")
        /\ IF index + 1 \notin DOMAIN navigationHistories
           THEN /\ lastOp' = [op |-> "navigate", result |-> "no history",
                               back |-> index < currentNavigationHistoryIndex]
                /\ UNCHANGED modalVars
                /\ UNCHANGED <<currentNavigationHistoryIndex, stackHistory>>
           ELSE /\ Construct(copyOf(navigationHistories[index + 1].command),
                             navigationHistories[index + 1].originFile,
                             navigationHistories[index + 1].inputQuery)
                /\ currentNavigationHistoryIndex' = index
                /\ stackHistory' = FALSE
                /\ lastOp' = [op |-> "navigate", result |-> "new modal",
                               back |-> index < currentNavigationHistoryIndex]
                /\ UNCHANGED <<settings, lastOpenFiles>>
    /\ UNCHANGED <<closed, isClosed, awaitingClosed, navQueue, navFailed, keptOpen,
                   initialState, leafView, navigationHistories, created, notice>>
    /\ UNCHANGED headerVars

\* the callbacks handleCreateNewMarkdown chains once the file is created
createQueue(file, leafType) ==
    navigate(navigate(onClose(navQueue), awaitIsClosed),
             Callback("openFile", file, leafType, FALSE))

\* handleCreateNewMarkdown(this.searchQuery, leafType), from a hot key or from
\* the Create button shown when there is no suggestion
HandleCreateNewMarkdown ==
    /\ opened /\ ~closed
    /\ \E leafType \in {"same-tab", "new-tab"} :
        LET linkPath == getPathToBeCreated(searchQuery)
        IN  /\ \/ registered(IF leafType = "same-tab" THEN "create" ELSE "create in new tab")
               \/ leafType = "same-tab" /\ values = <<>>
            /\ IF searchQuery = <<>>
               THEN /\ lastOp' = [op |-> "create", result |-> "no query"]
                    /\ UNCHANGED <<closed, isClosed, navQueue, created, notice>>
               ELSE IF exists(linkPath)
               THEN /\ notice' = "This file already exists."
                    /\ lastOp' = [op |-> "create", result |-> "exists"]
                    /\ UNCHANGED <<closed, isClosed, navQueue, created>>
               ELSE /\ created' = created \cup {linkPath}
                    /\ closed' = TRUE
                    /\ navQueue' = settle(createQueue(linkPath, leafType), isClosed).navQueue
                    /\ isClosed' = settle(createQueue(linkPath, leafType), isClosed).isClosed
                    /\ lastOp' = [op |-> "create", result |-> "created"]
                    /\ UNCHANGED notice
    /\ UNCHANGED modalVars
    /\ UNCHANGED <<awaitingClosed, navFailed, keptOpen, initialState,
                   leafView, navigationHistories, currentNavigationHistoryIndex,
                   stackHistory>>
    /\ UNCHANGED headerVars

\* "insert to editor in background": the captured state is restored and dropped
\* before the link is inserted; the modal stays open
InsertToEditorInBackground ==
    /\ opened /\ ~closed
    /\ registered("insert to editor in background")
    /\ values /= <<>>
    /\ initialState /= NoState
    /\ leafView' = restoredView(initialState)
    /\ initialState' = NoState
    /\ lastOp' = [op |-> "insert in background"]
    /\ UNCHANGED modalVars
    /\ UNCHANGED <<closed, isClosed, awaitingClosed, navQueue, navFailed, keptOpen,
                   navigationHistories, currentNavigationHistoryIndex,
                   stackHistory, created, notice>>
    /\ UNCHANGED headerVars

NextNav ==
    \/ OnOpen
    \/ PasteImmediate
    \/ PasteDebounced
    \/ DebounceFire
    \/ ChooseCurrentSuggestion
    \/ Close
    \/ RunQueued
    \/ NavigateLinks
    \/ NavigateHistory
    \/ HandleCreateNewMarkdown
    \/ InsertToEditorInBackground

SpecNav == InitNav /\ [][NextNav]_vars

NextPrefix ==
    \/ OnOpen
    \/ PasteImmediate
    \/ PasteDebounced
    \/ DebounceFire

SpecPrefix == InitPrefix /\ [][NextPrefix]_vars

\* ---------------------------------------------------------------- the header modal
MaxHeaders == 3

\* the texts of the headings of the active file
HeadingValues == {<<"a">>, <<"b">>}

\* the texts put in the input of the header modal
HeaderQueries == {<<>>, <<"a">>, <<"b">>}

\* getHeadersInActiveFile() of the candidate active files
HeadingsChoices == UNION {[1..n -> HeadingValues] : n \in 0..MaxHeaders}

\* the constructor: this.items, with index the 0-based place of the header
headerItemsOf(headings) ==
    [i \in 1..Len(headings) |-> [value |-> headings[i], index |-> i - 1]]

\* getSuggestions(query): the items that are hit, this.hitItems
hitItemsOf(query) ==
    LET qs == SelectSeq(splitBy(query, {" "}, <<>>), LAMBDA x : x /= <<>>)
    IN  SelectSeq(headerItems, LAMBDA x :
            /\ Len(qs) > 0
            /\ \A t \in 1..Len(qs) :
                  smartIncludes(x.value, qs[t], settings.normalizeAccentsAndDiacritics))

\* select(index, preview): with preview, this.items[index].position is read
\* and throws a TypeError when there is no such item
select(index, preview) ==
    /\ unsafeSelectedIndex' = index
    /\ headerThrown' = (preview /\ (index + 1) \notin DOMAIN headerItems)

getNextSelectIndex ==
    IF unsafeSelectedIndex + 1 > Len(headerItems) - 1
    THEN 0
    ELSE unsafeSelectedIndex + 1

getPreviousSelectIndex ==
    IF unsafeSelectedIndex - 1 < 0
    THEN Len(headerItems) - 1
    ELSE unsafeSelectedIndex - 1

\* hits.find(x => x.index >= from)?.index ?? hits[0].index
findHitFrom(hits, from) ==
    LET found == SelectSeq(hits, LAMBDA x : x.index >= from)
    IN  IF found = <<>> THEN hits[1].index ELSE found[1].index

\* hitItems.findIndex(x => x.index >= unsafeSelectedIndex), -1 when none
findIndexOfHit ==
    LET found == {k \in 1..Len(hitItems) : hitItems[k].index >= unsafeSelectedIndex}
    IN  IF found = {} THEN -1
        ELSE (CHOOSE k \in found : \A j \in found : k <= j) - 1

\* the header modal of an active file, constructed by showHeaderDialog
InitHeader ==
    /\ settings \in [maxNumberOfSuggestions : {9},
                     normalizeAccentsAndDiacritics : {TRUE},
                     hotkeys : {{}}]
    /\ lastOpenFiles = <<>>
    /\ initialCommand = SearchCommands[1]
    /\ command = initialCommand
    /\ originFile = "ab.md"
    /\ originItems = <<>>
    /\ ignoredItems = <<>>
    /\ searchQuery = <<>>
    /\ opened = FALSE
    /\ inputValue = <<>>
    /\ debouncePending = NoCall
    /\ values = <<>>
    /\ countInputEl = NoEl
    /\ evaluation = NoEvaluation
    /\ NewChain
    /\ headerItems \in {headerItemsOf(h) : h \in HeadingsChoices}
    /\ hitItems = <<>>
    /\ unsafeSelectedIndex = 0
    /\ headerFloating \in BOOLEAN
    /\ headerThrown = FALSE

\* the header modal leaves the search modal and the chain alone
OtherModalUnchanged ==
    /\ UNCHANGED <<settings, lastOpenFiles, initialCommand, command, originFile,
                   originItems, ignoredItems, searchQuery, opened,
                   debouncePending, values, countInputEl, evaluation>>
    /\ UNCHANGED <<closed, isClosed, awaitingClosed, navQueue, navFailed, keptOpen,
                   initialState, leafView, navigationHistories,
                   currentNavigationHistoryIndex, stackHistory, created, notice>>

\* onOpen(): the header at the cursor is selected, without preview; nothing
\* is selected without headers or with the cursor at offset 0
HeaderOnOpen ==
    /\ lastOp = NoOp
    /\ \/ UNCHANGED <<unsafeSelectedIndex, headerThrown>>
       \/ /\ headerItems /= <<>>
          /\ \E index \in 0..(Len(headerItems) - 1) : select(index, FALSE)
    /\ lastOp' = [op |-> "open"]
    /\ UNCHANGED <<inputValue, headerItems, hitItems, headerFloating>>
    /\ OtherModalUnchanged

\* an input event: getSuggestions(query), then the listener of the constructor
HeaderInput ==
    /\ lastOp /= NoOp
    /\ \E query \in HeaderQueries \ {inputValue} :
        /\ inputValue' = query
        /\ hitItems' = hitItemsOf(query)
        /\ IF hitItems' = <<>>
           THEN select(unsafeSelectedIndex, headerFloating)
           ELSE select(findHitFrom(hitItems', unsafeSelectedIndex), headerFloating)
    /\ lastOp' = [op |-> "input", from |-> unsafeSelectedIndex]
    /\ UNCHANGED <<headerItems, headerFloating>>
    /\ OtherModalUnchanged

navigateNext == select(getNextSelectIndex, headerFloating)

navigatePrevious == select(getPreviousSelectIndex, headerFloating)

\* a key bound to "navigate": the next header
NavigateNext ==
    /\ lastOp /= NoOp
    /\ navigateNext
    /\ lastOp' = [op |-> "navigate next", from |-> unsafeSelectedIndex]
    /\ UNCHANGED <<inputValue, headerItems, hitItems, headerFloating>>
    /\ OtherModalUnchanged

\* a key bound to "navigate": the previous header
NavigatePrevious ==
    /\ lastOp /= NoOp
    /\ navigatePrevious
    /\ lastOp' = [op |-> "navigate previous", from |-> unsafeSelectedIndex]
    /\ UNCHANGED <<inputValue, headerItems, hitItems, headerFloating>>
    /\ OtherModalUnchanged

\* a key bound to "move to next/previous hit": the next hit
MoveToNextHit ==
    /\ lastOp /= NoOp
    /\ IF Len(hitItems) = 1
       THEN headerThrown' = FALSE /\ UNCHANGED unsafeSelectedIndex
       ELSE IF Len(hitItems) = 0
       THEN navigateNext
       ELSE LET after == SelectSeq(hitItems, LAMBDA x : x.index > unsafeSelectedIndex)
            IN  select(IF after = <<>> THEN hitItems[1].index ELSE after[1].index,
                       headerFloating)
    /\ lastOp' = [op |-> "next hit", from |-> unsafeSelectedIndex]
    /\ UNCHANGED <<inputValue, headerItems, hitItems, headerFloating>>
    /\ OtherModalUnchanged

\* a key bound to "move to next/previous hit": the previous hit; reading
\* .index of hitItems[previousIndex] throws a TypeError when previousIndex is
\* not an index of hitItems
MoveToPreviousHit ==
    /\ lastOp /= NoOp
    /\ IF Len(hitItems) = 1
       THEN headerThrown' = FALSE /\ UNCHANGED unsafeSelectedIndex
       ELSE IF Len(hitItems) = 0
       THEN navigatePrevious
       ELSE LET currentIndex == findIndexOfHit
                previousIndex == IF currentIndex = 0
                                 THEN Len(hitItems) - 1
                                 ELSE currentIndex - 1
            IN  IF (previousIndex + 1) \in DOMAIN hitItems
                THEN select(hitItems[previousIndex + 1].index, headerFloating)
                ELSE headerThrown' = TRUE /\ UNCHANGED unsafeSelectedIndex
    /\ lastOp' = [op |-> "previous hit", from |-> unsafeSelectedIndex]
    /\ UNCHANGED <<inputValue, headerItems, hitItems, headerFloating>>
    /\ OtherModalUnchanged

NextHeader ==
    \/ HeaderOnOpen
    \/ HeaderInput
    \/ NavigateNext
    \/ NavigatePrevious
    \/ MoveToNextHit
    \/ MoveToPreviousHit

SpecHeader == InitHeader /\ [][NextHeader]_vars

\* ---------------------------------------------------------------- claims
Evaluated == evaluation /= NoEvaluation

PathsOf(xs) == {xs[i].file.path : i \in 1..Len(xs)}

IndexOfPath(xs, path) == CHOOSE i \in 1..Len(xs) : xs[i].file.path = path

\* what the vault holds for a facet of a file
FacetData(file, facet) ==
    IF facet = "name" THEN splitBy(file.basename, {" "}, <<>>)
    ELSE IF getFileCache(file) = NoCache THEN <<>>
    ELSE CASE facet = "alias" -> getFileCache(file).aliases
           [] facet = "tag" -> getFileCache(file).tags
           [] facet = "header" -> getFileCache(file).headings
           [] facet = "link" -> getFileCache(file).links

FacetSearched(facet, cmd) ==
    \/ facet \in {"name", "alias"}
    \/ facet = "tag" /\ cmd.searchBy.tag
    \/ facet = "header" /\ cmd.searchBy.header
    \/ facet = "link" /\ cmd.searchBy.link

ExactHit(value, token, sett) ==
    smartIncludes(value, token, sett.normalizeAccentsAndDiacritics)

FuzzyHit(value, token, cmd, sett) ==
    /\ cmd.allowFuzzySearchForSearchTarget
    /\ fuzzyScore(value, token, sett.normalizeAccentsAndDiacritics) >= 0
    /\ fuzzyScore(value, token, sett.normalizeAccentsAndDiacritics)
           >= cmd.minFuzzyMatchScore

FacetHits(file, facet, token, cmd, sett) ==
    /\ FacetSearched(facet, cmd)
    /\ \E i \in 1..Len(FacetData(file, facet)) :
        \/ ExactHit(FacetData(file, facet)[i], token, sett)
        \/ FuzzyHit(FacetData(file, facet)[i], token, cmd, sett)

TokenFound(file, token, cmd, sett) ==
    \E f \in 1..Len(Facets) : FacetHits(file, Facets[f], token, cmd, sett)

\* C1: for a non-empty query, a pre-filtered candidate is in the list that
\* _getSuggestions sorts (the result before truncation) if and only if every
\* token of the query is found in some searched facet of the candidate, and
\* every match result of a listed item is other than "not found".
ThmC1_AndAcrossTokens ==
    (Evaluated /\ ~evaluation.isQueryEmpty) =>
        /\ \A i \in 1..Len(ignoredItems) :
            (ignoredItems[i].file.path \in PathsOf(evaluation.items))
            <=> (\A t \in 1..Len(evaluation.qs) :
                    TokenFound(ignoredItems[i].file, evaluation.qs[t], command, settings))
        /\ PathsOf(evaluation.items) \subseteq PathsOf(ignoredItems)
        /\ \A k \in 1..Len(evaluation.items) :
            \A t \in 1..Len(evaluation.items[k].matchResults) :
                evaluation.items[k].matchResults[t].type /= "not found"

\* a two-token query that drops a candidate matching only its first token and
\* keeps one whose tokens are found in two different facets
WitC1_AndAcrossTokens ==
    /\ Evaluated /\ ~evaluation.isQueryEmpty
    /\ Len(evaluation.qs) = 2
    /\ \E i \in 1..Len(ignoredItems) :
        /\ ignoredItems[i].file.path \notin PathsOf(evaluation.items)
        /\ TokenFound(ignoredItems[i].file, evaluation.qs[1], command, settings)
    /\ \E k \in 1..Len(evaluation.items) :
        evaluation.items[k].matchResults[1].type
            /= evaluation.items[k].matchResults[2].type

\* C2: every returned item carries one match result per token of the query
\* that was evaluated, in token order: the values named by the t-th match
\* result are hits of the t-th token.
ThmC2_OneResultPerToken ==
    Evaluated =>
        \A i \in 1..Len(values) :
            /\ Len(values[i].matchResults) = Len(evaluation.qs)
            /\ \A t \in 1..Len(values[i].matchResults) :
                \A m \in 1..Len(values[i].matchResults[t].meta) :
                    \/ ExactHit(values[i].matchResults[t].meta[m], evaluation.qs[t], settings)
                    \/ FuzzyHit(values[i].matchResults[t].meta[m], evaluation.qs[t],
                                command, settings)

\* a query of two different tokens returned some item
WitC2_OneResultPerToken ==
    /\ Evaluated
    /\ Len(evaluation.qs) = 2
    /\ evaluation.qs[1] /= evaluation.qs[2]
    /\ Len(values) > 0

\* C3: when the search query is empty (blank), nothing is matched and every
\* pre-filtered candidate is eligible: the sorted list holds exactly the
\* pre-filtered candidates, unchanged and without match results, in the order
\* of the configured rules, and the returned list is its head.
ThmC3_EmptyQueryKeepsAll ==
    (Evaluated /\ evaluation.isQueryEmpty) =>
        /\ Len(evaluation.items) = Len(ignoredItems)
        /\ \A i \in 1..Len(ignoredItems) :
            \E k \in 1..Len(evaluation.items) : evaluation.items[k] = ignoredItems[i]
        /\ \A k \in 1..Len(evaluation.items) : evaluation.items[k].matchResults = <<>>
        /\ \A i, j \in 1..Len(evaluation.items) :
            i < j => compare(evaluation.items[i], evaluation.items[j],
                             command.sortPriorities,
                             lastOpenFileIndexByPath(lastOpenFiles)) <= 0
        /\ \A i \in 1..Len(values) :
            values[i].file.path = evaluation.items[i].file.path

\* an empty query on several candidates, a starred one moved ahead of an
\* unstarred one that the candidate list holds before it
WitC3_EmptyQueryKeepsAll ==
    /\ Evaluated /\ evaluation.isQueryEmpty
    /\ \E i, j \in 1..Len(evaluation.items) :
        /\ i < j
        /\ evaluation.items[i].starred /\ ~evaluation.items[j].starred
        /\ IndexOfPath(ignoredItems, evaluation.items[j].file.path)
               < IndexOfPath(ignoredItems, evaluation.items[i].file.path)

\* C4: the returned list is the first maxNumberOfSuggestions items of the
\* sorted eligible list, in the same order, each with order = its 0-based
\* index; so the item showing hot-key guide n is the one quick-select key n
\* chooses.
ThmC4_TruncationAndOrder ==
    Evaluated =>
        /\ Len(values) = Min(Len(evaluation.items), settings.maxNumberOfSuggestions)
        /\ \A i \in 1..Len(values) :
            /\ values[i].order = i - 1
            /\ values[i].file = evaluation.items[i].file
            /\ values[i].matchResults = evaluation.items[i].matchResults
            /\ \A n \in 1..9 :
                hotKeyGuide(values[i]) = n => quickSelected(n) = values[i]

\* more eligible items than the limit: the list was cut, and it keeps two items
WitC4_TruncationAndOrder ==
    /\ Evaluated
    /\ Len(evaluation.items) > settings.maxNumberOfSuggestions
    /\ Len(values) >= 2
    /\ hotKeyGuide(values[2]) = 2

\* C5: after every evaluation the status element reports shown / total, total
\* the number of eligible items before truncation and shown the number of
\* items returned, with shown <= total and shown <= maxNumberOfSuggestions.
CexC5_CountForEveryEvaluation ==
    Evaluated =>
        /\ countInputEl /= NoEl
        /\ countInputEl.total = Len(evaluation.items)
        /\ countInputEl.shown = Len(values)
        /\ countInputEl.shown <= countInputEl.total
        /\ countInputEl.shown <= settings.maxNumberOfSuggestions

\* C6: last-call-wins: once a newer query has been submitted, no evaluation of
\* an earlier query is started or delivered; so in an open modal the query
\* evaluated last is the text of the input, unless that text is the call the
\* debouncer still holds.
CexC6_LastCallWins ==
    (Evaluated /\ opened) =>
        \/ evaluation.query = inputValue
        \/ debouncePending = [query |-> inputValue]

IsExact(result) == result.type /= "not found" /\ result.score = ExactScore

IsFuzzy(result) == result.type /= "not found" /\ result.score /= ExactScore

\* C7: with exact-match-over-fuzzy as the first configured rule, an item
\* matched exactly on a token is ranked above an item matched only fuzzily on
\* that token in the same facet, whatever the other rules and the fuzzy score
\* say (the two items compared on that token: on no other token is the first
\* fuzzy where the second is exact).
ThmC7_ExactOverFuzzy ==
    (Evaluated /\ ~evaluation.isQueryEmpty
        /\ command.sortPriorities /= <<>>
        /\ Head(command.sortPriorities) = "exact-match-over-fuzzy") =>
        \A i, j \in 1..Len(evaluation.items) :
            (\E t \in 1..Len(evaluation.qs) :
                /\ evaluation.items[i].matchResults[t].type
                       = evaluation.items[j].matchResults[t].type
                /\ IsExact(evaluation.items[i].matchResults[t])
                /\ IsFuzzy(evaluation.items[j].matchResults[t])
                /\ \A u \in 1..Len(evaluation.qs) :
                    IsFuzzy(evaluation.items[i].matchResults[u])
                        => IsFuzzy(evaluation.items[j].matchResults[u]))
            => i < j

\* an exact name match ranked above a fuzzy name match although the fuzzy
\* item is starred, the exact one is not, and the candidates list the fuzzy
\* item first
WitC7_ExactOverFuzzy ==
    /\ Evaluated /\ ~evaluation.isQueryEmpty
    /\ command.sortPriorities /= <<>>
    /\ Head(command.sortPriorities) = "exact-match-over-fuzzy"
    /\ \E i, j \in 1..Len(evaluation.items) :
        /\ i < j
        /\ evaluation.items[i].matchResults[1].type = "name"
        /\ evaluation.items[j].matchResults[1].type = "name"
        /\ IsExact(evaluation.items[i].matchResults[1])
        /\ IsFuzzy(evaluation.items[j].matchResults[1])
        /\ evaluation.items[j].starred /\ ~evaluation.items[i].starred
        /\ IndexOfPath(ignoredItems, evaluation.items[j].file.path)
               < IndexOfPath(ignoredItems, evaluation.items[i].file.path)

FacetPrecedence == <<"name", "alias", "tag", "header", "link">>

\* C8: the match result recorded for a token is that of the highest facet, in
\* the precedence Name > Alias > Tag > Header > Link, among the searched
\* facets of the item that match the token.
ThmC8_FacetPrecedence ==
    (Evaluated /\ ~evaluation.isQueryEmpty) =>
        \A k \in 1..Len(evaluation.items) :
            \A t \in 1..Len(evaluation.qs) :
                \A f \in 1..Len(FacetPrecedence) :
                    (evaluation.items[k].matchResults[t].type = FacetPrecedence[f])
                    <=> (/\ FacetHits(evaluation.items[k].file, FacetPrecedence[f],
                                      evaluation.qs[t], command, settings)
                         /\ \A g \in 1..(f - 1) :
                             ~FacetHits(evaluation.items[k].file, FacetPrecedence[g],
                                        evaluation.qs[t], command, settings))

\* a token matching both the name and a tag of one item (recorded as name),
\* and both a tag and a header of another whose name does not match
\* (recorded as tag)
WitC8_FacetPrecedence ==
    /\ Evaluated /\ ~evaluation.isQueryEmpty
    /\ \E k, l \in 1..Len(evaluation.items) :
        /\ evaluation.items[k].matchResults[1].type = "name"
        /\ FacetHits(evaluation.items[k].file, "tag", evaluation.qs[1], command, settings)
        /\ evaluation.items[l].matchResults[1].type = "tag"
        /\ FacetHits(evaluation.items[l].file, "header", evaluation.qs[1], command, settings)

RulesApplied ==
    IF evaluation.isQueryEmpty
    THEN SelectSeq(command.sortPriorities, LAMBDA p : p /= "exact-match-over-fuzzy")
    ELSE command.sortPriorities

RuleOf(i, j, r) ==
    compareBy(evaluation.items[i], evaluation.items[j], RulesApplied[r],
              lastOpenFileIndexByPath(lastOpenFiles))

TieBefore(i, j, r) == \A q \in 1..(r - 1) : RuleOf(i, j, q) = 0

\* C9: the ranking is a stable sort: of two items of the sorted list, the one
\* placed first is the one favoured by the first rule, in list order, on which
\* they differ; two items that tie on every rule keep their order in the
\* input list.
ThmC9_StableSort ==
    Evaluated =>
        \A i, j \in 1..Len(evaluation.items) :
            i < j =>
                \/ \E r \in 1..Len(RulesApplied) : TieBefore(i, j, r) /\ RuleOf(i, j, r) < 0
                \/ /\ TieBefore(i, j, Len(RulesApplied) + 1)
                   /\ IndexOfPath(ignoredItems, evaluation.items[i].file.path)
                          < IndexOfPath(ignoredItems, evaluation.items[j].file.path)

\* one pair decided by a later rule after a tie on the first, against the
\* input order, and another pair tying on every rule
WitC9_StableSort ==
    /\ Evaluated
    /\ \E i, j \in 1..Len(evaluation.items) :
        /\ i < j
        /\ \E r \in 2..Len(RulesApplied) : TieBefore(i, j, r) /\ RuleOf(i, j, r) < 0
        /\ IndexOfPath(ignoredItems, evaluation.items[j].file.path)
               < IndexOfPath(ignoredItems, evaluation.items[i].file.path)
    /\ \E i, j \in 1..Len(evaluation.items) :
        i < j /\ TieBefore(i, j, Len(RulesApplied) + 1)

RecencyRule ==
    CHOOSE r \in 1..Len(RulesApplied) : RulesApplied[r] = "last-opened-recency"

RecencyIndex(path) == (CHOOSE n \in 1..Len(lastOpenFiles) : lastOpenFiles[n] = path) - 1

Opened(path) == \E n \in 1..Len(lastOpenFiles) : lastOpenFiles[n] = path

\* C10: two items of the last-opened-files list that tie on every rule
\* preceding the recency rule are placed by their position in that list, the
\* smaller index (0 = most recent) first.
ThmC10_RecencyTieBreak ==
    (Evaluated /\ \E r \in 1..Len(RulesApplied) : RulesApplied[r] = "last-opened-recency") =>
        \A i, j \in 1..Len(evaluation.items) :
            (/\ i /= j
             /\ TieBefore(i, j, RecencyRule)
             /\ Opened(evaluation.items[i].file.path)
             /\ Opened(evaluation.items[j].file.path)
             /\ RecencyIndex(evaluation.items[i].file.path)
                    < RecencyIndex(evaluation.items[j].file.path))
            => i < j

\* recency placed a more recent item first although it ties with the other on
\* an earlier rule and the candidates list it later
WitC10_RecencyTieBreak ==
    /\ Evaluated
    /\ \E r \in 2..Len(RulesApplied) : RulesApplied[r] = "last-opened-recency"
    /\ \E i, j \in 1..Len(evaluation.items) :
        /\ i < j
        /\ TieBefore(i, j, RecencyRule)
        /\ Opened(evaluation.items[i].file.path)
        /\ Opened(evaluation.items[j].file.path)
        /\ RecencyIndex(evaluation.items[i].file.path)
               < RecencyIndex(evaluation.items[j].file.path)
        /\ IndexOfPath(ignoredItems, evaluation.items[j].file.path)
               < IndexOfPath(ignoredItems, evaluation.items[i].file.path)

IndexedFor(cmd) == indexingItems(cmd, originFile)

\* C13: the candidate list is rebuilt whenever _getSuggestions switches the
\* active command and only then: indexingItems runs in an evaluation exactly
\* when the command changes in it, and the lists an evaluation matched are the
\* ones indexed and pre-filtered for the command that is active.
ThmC13_ReindexOnCommandSwitch ==
    /\ [](Evaluated =>
            /\ originItems = IndexedFor(command).originItems
            /\ ignoredItems = IndexedFor(command).ignoredItems
            /\ PathsOf(evaluation.items) \subseteq PathsOf(ignoredItems))
    /\ [][/\ command'.ref /= command.ref => evaluation'.indexed
          /\ (command'.ref = command.ref /\ evaluation' /= evaluation)
                => ~evaluation'.indexed]_vars

\* an evaluation switched the command by its prefix and indexed lists that
\* differ from those of the initial command
WitC13_ReindexOnCommandSwitch ==
    /\ Evaluated /\ evaluation.indexed
    /\ command.ref /= initialCommand.ref
    /\ command.commandPrefix /= <<>>
    /\ originItems /= IndexedFor(initialCommand).originItems
    /\ Len(values) > 0

\* a value the vault holds for the facet is hit by the token, whether the
\* command searches the facet or not
DataHits(file, facet, token, cmd, sett) ==
    \E i \in 1..Len(FacetData(file, facet)) :
        \/ ExactHit(FacetData(file, facet)[i], token, sett)
        \/ FuzzyHit(FacetData(file, facet)[i], token, cmd, sett)

OnlyDisabledHit(file, token, cmd, sett) ==
    /\ \E f \in 1..Len(FacetPrecedence) :
        ~FacetSearched(FacetPrecedence[f], cmd)
            /\ DataHits(file, FacetPrecedence[f], token, cmd, sett)
    /\ \A f \in 1..Len(FacetPrecedence) :
        FacetSearched(FacetPrecedence[f], cmd)
            => ~DataHits(file, FacetPrecedence[f], token, cmd, sett)

\* C14: a facet disabled for the active command never produces a match: no
\* eligible item has a match result of type tag, header or link unless
\* searchBy enables that facet, and a candidate with a token that only a
\* disabled facet could match is excluded.
ThmC14_DisabledFacetNeverMatches ==
    Evaluated =>
        /\ \A k \in 1..Len(evaluation.items) :
            \A t \in 1..Len(evaluation.items[k].matchResults) :
                /\ evaluation.items[k].matchResults[t].type = "tag" => command.searchBy.tag
                /\ evaluation.items[k].matchResults[t].type = "header"
                       => command.searchBy.header
                /\ evaluation.items[k].matchResults[t].type = "link" => command.searchBy.link
        /\ \A i \in 1..Len(ignoredItems) :
            (\E t \in 1..Len(evaluation.qs) :
                OnlyDisabledHit(ignoredItems[i].file, evaluation.qs[t], command, settings))
            => ignoredItems[i].file.path \notin PathsOf(evaluation.items)

\* a command that searches no tags: a candidate whose tag alone holds a token
\* is excluded while other candidates are returned
WitC14_DisabledFacetNeverMatches ==
    /\ Evaluated /\ ~evaluation.isQueryEmpty
    /\ ~command.searchBy.tag
    /\ Len(values) > 0
    /\ \E i \in 1..Len(ignoredItems) :
        /\ ignoredItems[i].file.path \notin PathsOf(evaluation.items)
        /\ \E t \in 1..Len(evaluation.qs) :
            /\ OnlyDisabledHit(ignoredItems[i].file, evaluation.qs[t], command, settings)
            /\ DataHits(ignoredItems[i].file, "tag", evaluation.qs[t], command, settings)

Score(value, token) == fuzzyScore(value, token, settings.normalizeAccentsAndDiacritics)

\* C15: a fuzzy match is accepted only when the active command allows fuzzy
\* search and its score is at least the command's minimum fuzzy score; a
\* candidate with a token that has neither an exact hit nor an accepted fuzzy
\* match in a searched facet is excluded.
ThmC15_FuzzyOnlyWhenAllowed ==
    (Evaluated /\ ~evaluation.isQueryEmpty) =>
        /\ \A k \in 1..Len(evaluation.items) :
            \A t \in 1..Len(evaluation.qs) :
                IsFuzzy(evaluation.items[k].matchResults[t]) =>
                    /\ command.allowFuzzySearchForSearchTarget
                    /\ evaluation.items[k].matchResults[t].score
                           >= command.minFuzzyMatchScore
                    /\ \A m \in 1..Len(evaluation.items[k].matchResults[t].meta) :
                        /\ ~ExactHit(evaluation.items[k].matchResults[t].meta[m],
                                     evaluation.qs[t], settings)
                        /\ Score(evaluation.items[k].matchResults[t].meta[m],
                                 evaluation.qs[t]) >= command.minFuzzyMatchScore
                        /\ Score(evaluation.items[k].matchResults[t].meta[m],
                                 evaluation.qs[t])
                               <= evaluation.items[k].matchResults[t].score
        /\ \A i \in 1..Len(ignoredItems) :
            (\E t \in 1..Len(evaluation.qs) :
                \A f \in 1..Len(FacetPrecedence) :
                    \A v \in 1..Len(FacetData(ignoredItems[i].file, FacetPrecedence[f])) :
                        FacetSearched(FacetPrecedence[f], command) =>
                            /\ ~ExactHit(FacetData(ignoredItems[i].file,
                                                   FacetPrecedence[f])[v],
                                         evaluation.qs[t], settings)
                            /\ \/ ~command.allowFuzzySearchForSearchTarget
                               \/ Score(FacetData(ignoredItems[i].file,
                                                  FacetPrecedence[f])[v],
                                        evaluation.qs[t]) < command.minFuzzyMatchScore
                               \/ Score(FacetData(ignoredItems[i].file,
                                                  FacetPrecedence[f])[v],
                                        evaluation.qs[t]) < 0)
            => ignoredItems[i].file.path \notin PathsOf(evaluation.items)

\* the name of an excluded candidate holds a token as a subsequence, but
\* the command allows no fuzzy search or the score is below its minimum
WitC15_FuzzyOnlyWhenAllowed ==
    /\ Evaluated /\ ~evaluation.isQueryEmpty
    /\ \E i \in 1..Len(ignoredItems) :
        /\ ignoredItems[i].file.path \notin PathsOf(evaluation.items)
        /\ \E t \in 1..Len(evaluation.qs) :
            /\ Score(ignoredItems[i].file.basename, evaluation.qs[t]) >= 0
            /\ ~ExactHit(ignoredItems[i].file.basename, evaluation.qs[t], settings)
            /\ \/ ~command.allowFuzzySearchForSearchTarget
               \/ /\ command.allowFuzzySearchForSearchTarget
                  /\ Score(ignoredItems[i].file.basename, evaluation.qs[t])
                         < command.minFuzzyMatchScore

\* C16: under the recency rule an item whose path is absent from the
\* last-opened-files list has a defined rank: among items that tie on the
\* earlier rules it is placed after every item whose path is in the list, and
\* it is not dropped: every candidate that passes the filter is ranked.
ThmC16_AbsentRecencyRanksLast ==
    (Evaluated /\ ~evaluation.returnedEarly
        /\ \E r \in 1..Len(RulesApplied) : RulesApplied[r] = "last-opened-recency") =>
        /\ \A i, j \in 1..Len(evaluation.items) :
            (/\ i /= j
             /\ TieBefore(i, j, RecencyRule)
             /\ Opened(evaluation.items[i].file.path)
             /\ ~Opened(evaluation.items[j].file.path))
            => i < j
        /\ \A i \in 1..Len(ignoredItems) :
            (/\ ~Opened(ignoredItems[i].file.path)
             /\ \A t \in 1..Len(evaluation.qs) :
                 TokenFound(ignoredItems[i].file, evaluation.qs[t], command, settings))
            => ignoredItems[i].file.path \in PathsOf(evaluation.items)

\* a never-opened candidate stands before an opened one in the candidate list
\* and after it in the ranking, and a never-opened phantom item is ranked
WitC16_AbsentRecencyRanksLast ==
    /\ Evaluated
    /\ \E r \in 1..Len(RulesApplied) : RulesApplied[r] = "last-opened-recency"
    /\ \E i, j \in 1..Len(evaluation.items) :
        /\ i < j
        /\ TieBefore(i, j, RecencyRule)
        /\ Opened(evaluation.items[i].file.path)
        /\ ~Opened(evaluation.items[j].file.path)
        /\ IndexOfPath(ignoredItems, evaluation.items[j].file.path)
               < IndexOfPath(ignoredItems, evaluation.items[i].file.path)
    /\ \E k \in 1..Len(evaluation.items) :
        evaluation.items[k].phantom /\ ~Opened(evaluation.items[k].file.path)

IsBlank(text) == \A i \in 1..Len(text) : text[i] \in Whitespace

\* C17: an evaluation of degenerate input ends with a list: an empty or
\* whitespace-only search query returns the head of all candidates; a query
\* that is only a command prefix is searched as the command's default input;
\* an empty candidate list returns the empty list; an item without facet data
\* (a phantom item) matches by its name or not at all; a backlink search
\* without origin file returns the empty list.
ThmC17_DegenerateInput ==
    Evaluated =>
        /\ Len(values) <= Len(ignoredItems)
        /\ PathsOf(values) \subseteq PathsOf(ignoredItems)
        /\ (IsBlank(searchQuery) /\ ~evaluation.returnedEarly) =>
            /\ evaluation.qs = <<>>
            /\ Len(values) = Min(Len(ignoredItems), settings.maxNumberOfSuggestions)
        /\ (command.commandPrefix /= <<>> /\ evaluation.query = command.commandPrefix) =>
            /\ searchQuery = command.defaultInput
            /\ evaluation.qs = smartWhitespaceSplit(command.defaultInput)
        /\ ignoredItems = <<>> => values = <<>>
        /\ \A i \in 1..Len(values) :
            values[i].phantom =>
                \A t \in 1..Len(values[i].matchResults) :
                    values[i].matchResults[t].type = "name"
        /\ (command.searchTarget = "backlink" /\ originFile = NoFile) => values = <<>>

\* a query that is nothing but a command prefix was evaluated and returned
\* items of the command's default input
WitC17_DegenerateInput ==
    /\ Evaluated
    /\ command.commandPrefix /= <<>>
    /\ evaluation.query = command.commandPrefix
    /\ Len(values) > 0

\* C18: every evaluation that returns an empty result list reports shown and
\* total counts of zero in the status element.
CexC18_EmptyResultReportsZero ==
    (Evaluated /\ values = <<>>) =>
        /\ countInputEl /= NoEl
        /\ countInputEl.shown = 0
        /\ countInputEl.total = 0

Unaccented(text) == [i \in 1..Len(text) |-> stripDiacritics(toLowerCase(text[i]))]

Lowered(text) == [i \in 1..Len(text) |-> toLowerCase(text[i])]

\* the token is in a word of the file's name once accents are removed, and in
\* no word of it as it is written
AccentOnlyHit(file, token) ==
    /\ \E n \in 1..Len(FacetData(file, "name")) :
        includes(Unaccented(FacetData(file, "name")[n]), Unaccented(token))
    /\ \A n \in 1..Len(FacetData(file, "name")) :
        ~includes(Lowered(FacetData(file, "name")[n]), Lowered(token))

NameExactAt(items, path, t) ==
    \E k \in 1..Len(items) :
        /\ items[k].file.path = path
        /\ items[k].matchResults[t].type = "name"
        /\ IsExact(items[k].matchResults[t])

\* C19: a name that holds a token only once its accents are removed is an
\* exact name match of that token when normalizeAccentsAndDiacritics is on,
\* and no name match when it is off: the item is then found for the token by
\* another facet or not at all.
ThmC19_DiacriticsToggle ==
    (Evaluated /\ ~evaluation.isQueryEmpty) =>
        \A i \in 1..Len(ignoredItems) :
            \A t \in 1..Len(evaluation.qs) :
                AccentOnlyHit(ignoredItems[i].file, evaluation.qs[t]) =>
                    /\ settings.normalizeAccentsAndDiacritics =>
                        /\ Len(evaluation.qs) = 1
                               => ignoredItems[i].file.path \in PathsOf(evaluation.items)
                        /\ ignoredItems[i].file.path \in PathsOf(evaluation.items)
                               => NameExactAt(evaluation.items,
                                              ignoredItems[i].file.path, t)
                    /\ ~settings.normalizeAccentsAndDiacritics =>
                        /\ \A k \in 1..Len(evaluation.items) :
                            evaluation.items[k].file.path = ignoredItems[i].file.path
                                => evaluation.items[k].matchResults[t].type /= "name"
                        /\ (\A f \in 2..Len(FacetPrecedence) :
                                FacetData(ignoredItems[i].file, FacetPrecedence[f]) = <<>>)
                               => ignoredItems[i].file.path
                                      \notin PathsOf(evaluation.items)

\* with the toggle on, a file whose name has an accented letter is returned
\* as an exact name match of the unaccented token
WitC19_DiacriticsToggle ==
    /\ Evaluated /\ ~evaluation.isQueryEmpty
    /\ settings.normalizeAccentsAndDiacritics
    /\ \E i \in 1..Len(values) :
        /\ AccentOnlyHit(values[i].file, evaluation.qs[1])
        /\ Len(evaluation.qs[1]) >= 2
        /\ values[i].matchResults[1].type = "name"
        /\ IsExact(values[i].matchResults[1])

MetaNamesValues(results, file) ==
    \A t \in 1..Len(results) :
        /\ results[t].type = "not found" => results[t].meta = <<>>
        /\ results[t].type /= "not found" =>
            /\ results[t].meta /= <<>>
            /\ \A m \in 1..Len(results[t].meta) :
                \E v \in 1..Len(FacetData(file, results[t].type)) :
                    FacetData(file, results[t].type)[v] = results[t].meta[m]

\* C20: a match result other than "not found" carries a non-empty meta of
\* values of the matched facet, and "not found" carries an empty meta; a
\* returned item of a file search whose first match result is of type header
\* has a meta[0] that is a heading of the file, so the jump offset is found.
ThmC20_MetaNamesMatchedValues ==
    (Evaluated /\ ~evaluation.isQueryEmpty) =>
        /\ \A i \in 1..Len(ignoredItems) :
            MetaNamesValues(
                stampMatchResults(ignoredItems[i], evaluation.qs,
                                  matchOptions(command, settings)).matchResults,
                ignoredItems[i].file)
        /\ \A i \in 1..Len(values) :
            values[i].matchResults[1].type = "header"
                => headerOffset(values[i]) /= NoOffset

\* a returned item matched a token fuzzily by a header, with the header in its
\* meta, while another candidate has a "not found" result
WitC20_MetaNamesMatchedValues ==
    /\ Evaluated /\ ~evaluation.isQueryEmpty
    /\ \E i \in 1..Len(values) :
        /\ values[i].matchResults[1].type = "header"
        /\ IsFuzzy(values[i].matchResults[1])
        /\ headerOffset(values[i]) /= NoOffset
    /\ Len(evaluation.items) < Len(ignoredItems)

\* ------------------------------------------------------------------
\* claims about the navigation chain
\* ------------------------------------------------------------------

\* the last operation was a choice of an item (not of an empty list)
ChoseItem == lastOp.op = "choose" /\ lastOp.result /= "no item"

\* C21: choosing a phantom suggestion creates the file at the item's path
\* and queues its opening after that; choosing a non-phantom suggestion
\* creates no file. Stated on the outcome of the last choice: a choice of a
\* phantom item never ends in the rejection of vault.create.
CexC21_PhantomChoiceCreates ==
    (ChoseItem /\ lastOp.phantom) =>
        /\ lastOp.result = "queued"
        /\ lastOp.path \in created

\* the k-th queued callback opens a file after a close (not in place)
OpensAfterClose(k) ==
    navQueue[k].op = "openFile" /\ ~navQueue[k].inplace

\* C22: for a choice without keepOpen the callbacks run on navQueue in the
\* order restore of the captured leaf state (if one is held), markClosed,
\* the wait for isClosed, openFile: an openFile queued by a closing choice
\* never runs before isClosed is resolved, and while isClosed is unresolved
\* markClosed and the wait are queued before it, after the restore.
ThmC22_OpenAfterClosed ==
    \A k \in 1..Len(navQueue) :
        OpensAfterClose(k) =>
            /\ k = 1 => isClosed
            /\ ~isClosed =>
                \E m \in 1..(k - 2) :
                    /\ navQueue[m].op = "markClosed"
                    /\ navQueue[m + 1].op = "isClosed"
                    /\ initialState /= NoState =>
                           \E r \in 1..(m - 1) : navQueue[r].op = "restore"

\* the openFile of a closing choice is the callback to run: the leaf state
\* captured by a preview has been restored and isClosed is resolved
WitC22_OpenAfterClosed ==
    /\ lastOp.op = "choose" /\ closed
    /\ navQueue /= <<>> /\ OpensAfterClose(1)
    /\ isClosed
    /\ initialState /= NoState /\ ~initialState.leaf

\* a step of "navigate back" (TRUE) or "navigate forward" (FALSE)
HistoryStep(back) ==
    NavigateHistory /\ lastOp'.op = "navigate" /\ lastOp'.back = back

\* C25: once a modal has opened, currentNavigationHistoryIndex is a valid
\* (0-based) index of navigationHistories; navigating back at index 0 and
\* navigating forward at the last index leave the modal, the history and the
\* index as they are.
ThmC25_HistoryIndexInRange ==
    /\ [](opened => /\ 0 <= currentNavigationHistoryIndex
                    /\ currentNavigationHistoryIndex <= Len(navigationHistories) - 1)
    /\ [][ /\ (HistoryStep(TRUE) /\ currentNavigationHistoryIndex = 0)
                  => UNCHANGED <<modalVars, navigationHistories,
                                 currentNavigationHistoryIndex, stackHistory, closed>>
           /\ (HistoryStep(FALSE) /\ currentNavigationHistoryIndex
                                         = Len(navigationHistories) - 1)
                  => UNCHANGED <<modalVars, navigationHistories,
                                 currentNavigationHistoryIndex, stackHistory, closed>>
         ]_vars

\* after going to a successor modal and back, "navigate back" was pressed at
\* index 0 of a history of two modals and nothing moved
WitC25_HistoryIndexInRange ==
    /\ opened
    /\ lastOp.op = "navigate" /\ lastOp.result = "no history" /\ lastOp.back
    /\ currentNavigationHistoryIndex = 0
    /\ Len(navigationHistories) = 2

\* a leaf state is held by the chain
Held == initialState /= NoState

\* a restore callback is queued before a markClosed
RestoreQueued(queue) ==
    \E m \in 1..Len(queue) :
        /\ queue[m].op = "markClosed"
        /\ \E r \in 1..(m - 1) : queue[r].op = "restore"

Qualifying(query) ==
    {i \in DOMAIN SearchCommands :
        /\ SearchCommands[i].commandPrefix /= <<>>
        /\ Len(SearchCommands[i].commandPrefix) <= Len(query)
        /\ \A k \in 1..Len(SearchCommands[i].commandPrefix) :
              query[k] = SearchCommands[i].commandPrefix[k]}

\* the text is the query without the prefix at its start
WithoutPrefix(text, query, prefix) ==
    IF \E rest \in {SubSeq(query, n, Len(query)) : n \in 1..(Len(query) + 1)} :
           query = prefix \o rest
    THEN query = prefix \o text
    ELSE text = query

\* C24: after every _getSuggestions(query) the active command is the first
\* entry of settings.searchCommands with a non-empty commandPrefix the query
\* starts with, or the initial command of the modal when there is none; the
\* search query is the query without that command's prefix at its start,
\* with the command's defaultInput put before it.
ThmC24_CommandByPrefix ==
    Evaluated =>
        /\ IF Qualifying(evaluation.query) = {}
           THEN command = initialCommand
           ELSE \E i \in Qualifying(evaluation.query) :
                   /\ \A j \in Qualifying(evaluation.query) : i <= j
                   /\ command = SearchCommands[i]
        /\ Len(searchQuery) >= Len(command.defaultInput)
        /\ SubSeq(searchQuery, 1, Len(command.defaultInput)) = command.defaultInput
        /\ WithoutPrefix(SubSeq(searchQuery, Len(command.defaultInput) + 1,
                                Len(searchQuery)),
                         evaluation.query, command.commandPrefix)

\* a query that starts with the prefixes of two commands was evaluated in a
\* modal opened for another command: the first of the two is active
WitC24_CommandByPrefix ==
    /\ Evaluated
    /\ evaluation.query = <<"c", " ", "b">>
    /\ Cardinality(Qualifying(evaluation.query)) = 2
    /\ command = SearchCommands[1]
    /\ initialCommand = SearchCommands[2]
    /\ searchQuery = <<" ", "b">>

\* ------------------------------------------------------------------
\* claims about closing
\* ------------------------------------------------------------------

\* C26: every non-silent close of a modal eventually resolves its isClosed
\* promise, whatever was queued on navQueue before it, callbacks that fail
\* included. Stated on the runs' ends: once the modal is closed and no
\* callback is left to run, isClosed is resolved and no handler is still
\* suspended on it.
CexC26_CloseResolvesIsClosed ==
    (closed /\ navQueue = <<>>) => (isClosed /\ ~awaitingClosed)

\* the paths of the files of the vault, the created ones included
ExistingPaths ==
    {pathText(VaultFiles[i]) : i \in 1..Len(VaultFiles)} \cup created

\* the path handleCreateNewMarkdown is to create
CreatePath == getPathToBeCreated(searchQuery)

\* C28: creating a note never overwrites. handleCreateNewMarkdown with an
\* empty search query does nothing; when the path to be created exists
\* already, nothing is created, the modal stays open and the notice says
\* that the file already exists; otherwise the file is created, the modal is
\* closed and the opening of the new file is queued behind the close.
ThmC28_CreateNeverOverwrites ==
    [][HandleCreateNewMarkdown =>
        CASE searchQuery = <<>> ->
                UNCHANGED <<created, closed, isClosed, navQueue, notice>>
          [] searchQuery /= <<>> /\ CreatePath \in ExistingPaths ->
                /\ UNCHANGED <<created, closed, isClosed, navQueue>>
                /\ notice' = "This file already exists."
          [] OTHER ->
                /\ created' = created \cup {CreatePath}
                /\ closed'
                /\ navFailed \/
                     /\ navQueue' /= <<>>
                     /\ navQueue'[Len(navQueue')].op = "openFile"
                     /\ navQueue'[Len(navQueue')].file = CreatePath
                     /\ ~navQueue'[Len(navQueue')].inplace
                     /\ \/ isClosed'
                        \/ \E m \in 1..(Len(navQueue') - 2) :
                              /\ navQueue'[m].op = "markClosed"
                              /\ navQueue'[m + 1].op = "isClosed"
      ]_vars

\* the note asked for was created before by the preview of a phantom item:
\* the modal is still open and the notice is shown
WitC28_CreateNeverOverwrites ==
    /\ opened /\ ~closed
    /\ lastOp = [op |-> "create", result |-> "exists"]
    /\ notice = "This file already exists."
    /\ CreatePath \in created

\* ------------------------------------------------------------------
\* claims about the origin file
\* ------------------------------------------------------------------

\* C27: the origin file of a modal never appears among its suggestions,
\* whatever the query, in the first modal of a chain and in the successor
\* modals, whose origin is the item selected in the previous modal and may
\* be a phantom. Stated for chains that created no note, so that the phantom
\* files are those the vault had when the chain started.
CexC27_OriginNeverSuggested ==
    (opened /\ Evaluated /\ created = {}) =>
        originFile \notin PathsOf(values)

\* ------------------------------------------------------------------
\* claims about the header modal
\* ------------------------------------------------------------------

\* the header modal has been opened
HeaderOpened == lastOp /= NoOp

\* C29: in the header modal of a file with any number of headers, after any
\* sequence of navigate-next and navigate-previous the selected index is the
\* index of a header, 0 <= unsafeSelectedIndex <= items.length - 1, wrapping
\* at both ends. Stated here without the upper limit for a file without
\* headers, where no index satisfies it.
CexC29_SelectedIndexInRange ==
    HeaderOpened =>
        /\ 0 <= unsafeSelectedIndex
        /\ headerItems /= <<>> => unsafeSelectedIndex <= Len(headerItems) - 1

\* the 0-based indices of the hit headers
HitIndices == {hitItems[k].index : k \in 1..Len(hitItems)}

\* C30: with two or more hit headers, from any selected index, move to next
\* hit selects the nearest hit after the selection, or the first hit when
\* there is none, and move to previous hit selects the nearest hit before
\* the selection, or the last hit when there is none; both leave the
\* selection on a hit header and never fail.
CexC30_MoveToHit ==
    (HeaderOpened /\ lastOp.op \in {"next hit", "previous hit"}
                  /\ Len(hitItems) >= 2) =>
        /\ ~headerThrown
        /\ unsafeSelectedIndex \in HitIndices
        /\ lastOp.op = "next hit" =>
              LET after == {i \in HitIndices : i > lastOp.from}
              IN  \A i \in (IF after = {} THEN HitIndices ELSE after) :
                      unsafeSelectedIndex <= i
        /\ lastOp.op = "previous hit" =>
              LET before == {i \in HitIndices : i < lastOp.from}
              IN  \A i \in (IF before = {} THEN HitIndices ELSE before) :
                      i <= unsafeSelectedIndex

====
